---- MODULE Spec2Model ----
(***************************************************************************)
(* A model of the botfit conversation core: the per-user dialog state that *)
(* is persisted on the users row, the router any_text with its chain of    *)
(* flow handlers, the meal resolution pipeline with its food_pick          *)
(* disambiguation and meal_confirm step, and the plan generation / edit    *)
(* engine with its quality gate and model tiers.                           *)
(*                                                                         *)
(* One user is modelled.  A handler runs inside one SQLAlchemy session:    *)
(* what it assigns becomes persistent only when it calls db.commit(); a    *)
(* handler that returns (or raises) without commit leaves the persisted    *)
(* row as it was.  The variables below are the PERSISTED state, plus `out` *)
(* (what the last handler did: its branch, its replies, whether it raised) *)
(* and `gen` (a plan generation that is awaiting the oracle).              *)
(*                                                                         *)
(* db.commit() writes the columns whose value differs from what the        *)
(* session has loaded, so a generation that ends after other handlers      *)
(* have committed overwrites only the columns it has changed itself.       *)
(*                                                                         *)
(* Left out: the columns of the profile and the preferences (the calorie   *)
(* targets are fixed, see ActiveKcal), the scheduler (its daily check-in   *)
(* needs the preference daily_checkin_enabled, which no handler writes),   *)
(* and the mode "onboarding" (_start_onboarding is called by nothing).     *)
(* The OpenFoodFacts client and the generative model are the environment:  *)
(* their answers are drawn from small sets.  Time is the number of seconds *)
(* since started_at_utc of the plan_generating payload.                    *)
(*                                                                         *)
(* Texts are sequences of tokens: a digit, a letter, a blank, or one       *)
(* opaque glyph standing for a whole keyboard label or a whole word.       *)
(***************************************************************************)
EXTENDS Integers, Sequences, FiniteSets, TLC

(***************************************************************************)
(* Python None: Null where a string is expected, NoStep in the integer     *)
(* column dialog_step, NoNum for an optional number, None elsewhere.       *)
(***************************************************************************)
Null == "null"
NoStep == -1
None == [none |-> TRUE]

(***************************************************************************)
(* Bounds of the model.                                                    *)
(***************************************************************************)
MaxMeals == 1
MaxQuestions == 2
MaxDays == 2

(***************************************************************************)
(* Texts.  A text is a sequence of tokens.  A token is one character: an   *)
(* ASCII character stands for itself, "ru_x" is the Cyrillic letter        *)
(* transliterated x ("RU_X" its capital), and a token in brackets is the   *)
(* emoji that opens a keyboard label together with the label's words,      *)
(* which no handler looks into.                                            *)
(***************************************************************************)
Blank == " "
Digits == {"0", "1", "2", "3", "4", "5", "6", "7", "8", "9"}
UpperTokens ==
    <<"A", "B", "C", "D", "E", "F", "G", "H", "I", "J", "K", "L", "M", "N", "O", "P",
      "Q", "R", "S", "T", "U", "V", "W", "X", "Y", "Z", "RU_D", "RU_A", "RU_O">>
LowerTokens ==
    <<"a", "b", "c", "d", "e", "f", "g", "h", "i", "j", "k", "l", "m", "n", "o", "p",
      "q", "r", "s", "t", "u", "v", "w", "x", "y", "z", "ru_d", "ru_a", "ru_o">>
RuLetters ==
    {"ru_a", "ru_b", "ru_v", "ru_g", "ru_d", "ru_e", "ru_zh", "ru_z", "ru_i", "ru_j",
     "ru_k", "ru_l", "ru_m", "ru_n", "ru_o", "ru_p", "ru_r", "ru_s", "ru_t", "ru_u",
     "ru_f", "ru_h", "ru_c", "ru_ch", "ru_sh", "ru_sch", "ru_hard", "ru_y", "ru_soft",
     "ru_ee", "ru_yu", "ru_ya", "ru_yo"}

\* \w of the re module: letters, digits and the underscore
IsWordTok(c) ==
    \/ c \in Digits
    \/ c \in RuLetters
    \/ c = "_"
    \/ \E i \in 1..Len(UpperTokens) : c = UpperTokens[i] \/ c = LowerTokens[i]

DigitVal(c) ==
    CASE c = "0" -> 0 [] c = "1" -> 1 [] c = "2" -> 2 [] c = "3" -> 3
      [] c = "4" -> 4 [] c = "5" -> 5 [] c = "6" -> 6 [] c = "7" -> 7
      [] c = "8" -> 8 [] c = "9" -> 9 [] OTHER -> 0

\* str.lower() on one character
Lower(c) ==
    IF \E i \in 1..Len(UpperTokens) : UpperTokens[i] = c
    THEN LowerTokens[CHOOSE i \in 1..Len(UpperTokens) : UpperTokens[i] = c]
    ELSE c

LowerText(s) == [i \in 1..Len(s) |-> Lower(s[i])]

RECURSIVE LStrip(_)
LStrip(s) == IF s # <<>> /\ Head(s) = Blank THEN LStrip(Tail(s)) ELSE s

RECURSIVE RStrip(_)
RStrip(s) ==
    IF s # <<>> /\ s[Len(s)] = Blank THEN RStrip(SubSeq(s, 1, Len(s) - 1)) ELSE s

\* str.strip()
Strip(s) == RStrip(LStrip(s))

\* re.sub(r"\s+", " ", s): every run of blanks becomes one blank
RECURSIVE Squeeze(_)
Squeeze(s) ==
    IF Len(s) < 2 THEN s
    ELSE IF s[1] = Blank /\ s[2] = Blank THEN Squeeze(Tail(s))
    ELSE <<s[1]>> \o Squeeze(Tail(s))

_norm_text(s) == Squeeze(LowerText(Strip(s)))

\* b in s, for strings
Contains(s, b) ==
    \E i \in 1..(Len(s) - Len(b) + 1) : SubSeq(s, i, i + Len(b) - 1) = b

\* the longest run of digits that starts at the head of s
RECURSIVE DigitRun(_)
DigitRun(s) ==
    IF s # <<>> /\ Head(s) \in Digits THEN <<Head(s)>> \o DigitRun(Tail(s)) ELSE <<>>

\* the text from its first digit on, <<>> when s holds no digit
RECURSIVE FromFirstDigit(_)
FromFirstDigit(s) ==
    IF s = <<>> \/ Head(s) \in Digits THEN s ELSE FromFirstDigit(Tail(s))

\* re.search(r"(\d+)", s).group(1): the leftmost, longest run of digits
FirstDigits(s) == DigitRun(FromFirstDigit(s))

\* int() of a run of digits
RECURSIVE IntOf(_)
IntOf(ds) ==
    IF ds = <<>> THEN 0 ELSE IntOf(SubSeq(ds, 1, Len(ds) - 1)) * 10 + DigitVal(ds[Len(ds)])

\* None of an optional number
NoNum == -1

_parse_int(s) ==
    IF FirstDigits(_norm_text(s)) = <<>> THEN NoNum ELSE IntOf(FirstDigits(_norm_text(s)))

\* _parse_float, in tenths: "," is read as ".", the match is the first run of
\* digits with, when a "." and a digit follow it, its fraction.  The texts of the
\* model carry at most one fractional digit.
_parse_float(s) ==
    LET t == [i \in 1..Len(_norm_text(s)) |->
                 IF _norm_text(s)[i] = "," THEN "." ELSE _norm_text(s)[i]]
        f == FromFirstDigit(t)
        ds == DigitRun(f)
        rest == SubSeq(f, Len(ds) + 1, Len(f))
    IN IF ds = <<>> THEN NoNum
       ELSE IF Len(rest) >= 2 /\ rest[1] = "." /\ rest[2] \in Digits
            THEN IntOf(ds) * 10 + DigitVal(rest[2])
            ELSE IntOf(ds) * 10

\* str.isdigit()
IsDigit(s) == s # <<>> /\ \A i \in 1..Len(s) : s[i] \in Digits

RemoveBlanks(s) == SelectSeq(s, LAMBDA c : c # Blank)

RECURSIVE WordRun(_)
WordRun(s) ==
    IF s # <<>> /\ IsWordTok(Head(s)) THEN <<Head(s)>> \o WordRun(Tail(s)) ELSE <<>>

\* the maximal runs of word characters of s, left to right
RECURSIVE WordRuns(_)
WordRuns(s) ==
    IF s = <<>> THEN <<>>
    ELSE IF IsWordTok(Head(s))
         THEN <<WordRun(s)>> \o WordRuns(SubSeq(s, Len(WordRun(s)) + 1, Len(s)))
         ELSE WordRuns(Tail(s))

\* _maybe_barcode: re.search(r"\b(\d{8,14})\b") on the normalised text with
\* its blanks removed: the first whole word made of 8 to 14 digits
NoBarcode == <<>>
_maybe_barcode(s) ==
    LET ws == SelectSeq(WordRuns(RemoveBlanks(_norm_text(s))),
                        LAMBDA w : IsDigit(w) /\ Len(w) >= 8 /\ Len(w) <= 14)
    IN IF ws = <<>> THEN NoBarcode ELSE ws[1]

\* int(round(n / d)) for n >= 0, d > 0: Python rounds a tie to the even integer
RoundHalfEven(n, d) ==
    LET q == n \div d
        r == n % d
    IN IF 2 * r < d THEN q
       ELSE IF 2 * r > d THEN q + 1
       ELSE IF q % 2 = 0 THEN q ELSE q + 1

(***************************************************************************)
(* keyboards.py: the button labels.                                        *)
(***************************************************************************)
BTN_PROFILE == <<"[Profile]">>
BTN_WEIGHT == <<"[Weight]">>
BTN_LOG_MEAL == <<"[LogMeal]">>
BTN_PHOTO_HELP == <<"[PhotoHelp]">>
BTN_PLAN == <<"[Plan]">>
BTN_WEEK == <<"[Week]">>
BTN_REMINDERS == <<"[Reminders]">>
BTN_PROGRESS == <<"[Progress]">>
BTN_HELP == <<"[Help]">>
BTN_MENU == <<"[Menu]">>
BTN_CANCEL == <<"[X]", " ", "RU_O", "ru_t", "ru_m", "ru_e", "ru_n", "ru_a">>
BTN_TARGETS_AUTO == <<"[TargetsAuto]">>
BTN_TARGETS_CUSTOM == <<"[TargetsCustom]">>
BTN_PLAN_TODAY == <<"[Today]">>
BTN_PLAN_TOMORROW == <<"[Tomorrow]">>
BTN_PLAN_AFTER_TOMORROW == <<"[AfterTomorrow]">>
BTN_PLAN_OTHER_DATE == <<"[OtherDate]">>
BTN_STORE_ANY == <<"[AnyStore]">>
BTN_STORE_KAUFLAND == <<"[Kaufland]">>
BTN_STORE_LIDL == <<"[Lidl]">>
BTN_STORE_ALBERT == <<"[Albert]">>
BTN_STORE_PENNY == <<"[Penny]">>
BTN_PLAN_APPROVE == <<"[Approve]">>
BTN_PLAN_REGEN == <<"[Regen]">>
BTN_PLAN_EDIT_CANCEL == <<"[CloseEdits]">>

\* the literal "❌ Отмена" the handlers compare with
CancelLiteral == <<"[X]", " ", "RU_O", "ru_t", "ru_m", "ru_e", "ru_n", "ru_a">>
\* the ten main-menu labels that food_pick, the clarifications, meal_confirm
\* and apply_calories take as an escape
MenuEscapes ==
    {BTN_MENU, BTN_HELP, BTN_PROFILE, BTN_WEIGHT, BTN_LOG_MEAL, BTN_PHOTO_HELP,
     BTN_PLAN, BTN_WEEK, BTN_REMINDERS, BTN_PROGRESS}

(***************************************************************************)
(* OpenFoodFacts, as FoodService sees it.  The food oracle is a fixed      *)
(* catalogue: a product is what openfoodfacts.search / get_by_barcode      *)
(* build from it (a product without "code" has no barcode, a product       *)
(* without a nutriment has None for it).  The Food cache stores per        *)
(* barcode what the oracle returned, so a cached row equals the            *)
(* catalogue's and the cache is not a variable of the model.               *)
(***************************************************************************)
BC_RICE == <<"1", "1", "1", "1", "2", "2", "2", "2">>
BC_CHICKEN == <<"4", "0", "0", "6", "0", "4", "0", "1">>
BC_WINGS == <<"8", "5", "9", "4", "0", "0", "0", "1">>


P_RICE ==
    [barcode |-> BC_RICE, name |-> "Rice", kcal_100g |-> 130,
     protein_100g |-> 3, fat_100g |-> 0, carbs_100g |-> 28]
P_CHICKEN_A ==
    [barcode |-> BC_CHICKEN, name |-> "Chicken breast", kcal_100g |-> 165,
     protein_100g |-> 31, fat_100g |-> 4, carbs_100g |-> 0]
P_CHICKEN_B ==
    [barcode |-> NoBarcode, name |-> "Chicken thigh", kcal_100g |-> 177,
     protein_100g |-> 24, fat_100g |-> 8, carbs_100g |-> 0]
P_WINGS ==
    [barcode |-> BC_WINGS, name |-> "Chicken wings", kcal_100g |-> 203,
     protein_100g |-> NoNum, fat_100g |-> 13, carbs_100g |-> 0]
\* three yogurts with complete macros, and seven breads of which the second
\* has no protein value
P_YOGURT(i) ==
    [barcode |-> NoBarcode, name |-> "Yogurt", kcal_100g |-> 60 + i,
     protein_100g |-> 4, fat_100g |-> 3, carbs_100g |-> 5]
P_BREAD(i) ==
    [barcode |-> NoBarcode, name |-> "Bread", kcal_100g |-> 240 + i,
     protein_100g |-> IF i = 2 THEN NoNum ELSE 9, fat_100g |-> 3, carbs_100g |-> 48]
Catalogue ==
    {P_RICE, P_CHICKEN_A, P_CHICKEN_B, P_WINGS} \cup {P_YOGURT(i) : i \in 1..3}
      \cup {P_BREAD(i) : i \in 1..7}

\* openfoodfacts.get_by_barcode: the product with this code, or None
get_by_barcode(barcode) ==
    IF \E p \in Catalogue : p.barcode = barcode
    THEN CHOOSE p \in Catalogue : p.barcode = barcode
    ELSE None

\* openfoodfacts.search: the products of the first page, in the oracle's order
search(query) ==
    CASE query = "rice" -> <<P_RICE>>
      [] query = "chicken" -> <<P_CHICKEN_A, P_WINGS, P_CHICKEN_B>>
      [] query = "chicken breast" -> <<P_CHICKEN_A>>
      [] query = "yogurt" -> [i \in 1..3 |-> P_YOGURT(i)]
      [] query = "bread" -> [i \in 1..7 |-> P_BREAD(i)]
      [] OTHER -> <<>>

\* FoodService.resolve_by_barcode: the cached row, else the oracle's product
resolve_by_barcode(barcode) == get_by_barcode(barcode)

HasMacros(c) ==
    /\ c.kcal_100g # NoNum
    /\ c.protein_100g # NoNum
    /\ c.fat_100g # NoNum
    /\ c.carbs_100g # NoNum

(***************************************************************************)
(* Grams of a parsed item are in tenths of a gram (the oracle returns a    *)
(* float); the macros of an item are in thousandths (per-100g value times  *)
(* tenths of a gram), so that the floats of the code are exact here.       *)
(***************************************************************************)
\* the macros taken from the whole grams that the item reports
compute_item_macros_whole(grams, cand) ==
    IF grams <= 0 THEN None
    ELSE IF ~HasMacros(cand) THEN None
    ELSE [name |-> cand.name,
          barcode |-> cand.barcode,
          grams |-> RoundHalfEven(grams, 10),
          calories |-> cand.kcal_100g * RoundHalfEven(grams, 10) * 10,
          protein_g |-> cand.protein_100g * RoundHalfEven(grams, 10) * 10,
          fat_g |-> cand.fat_100g * RoundHalfEven(grams, 10) * 10,
          carbs_g |-> cand.carbs_100g * RoundHalfEven(grams, 10) * 10]
compute_item_macros(grams, cand) ==
    IF grams <= 0 THEN None
    ELSE IF ~HasMacros(cand) THEN None
    ELSE [name |-> cand.name,
          barcode |-> cand.barcode,
          grams |-> RoundHalfEven(grams, 10),
          calories |-> cand.kcal_100g * grams,
          protein_g |-> cand.protein_100g * grams,
          fat_g |-> cand.fat_100g * grams,
          carbs_g |-> cand.carbs_100g * grams]

RECURSIVE SumOf(_, _)
SumOf(f(_), rs) == IF rs = <<>> THEN 0 ELSE f(Head(rs)) + SumOf(f, Tail(rs))

\* totals whose weight is taken from the first resolved item alone
TotalsOf_first(resolved) ==
    [total_weight_g |-> IF resolved = <<>> THEN 0 ELSE resolved[1].grams,
     calories |-> RoundHalfEven(SumOf(LAMBDA r : r.calories, resolved), 1000),
     protein_g |-> RoundHalfEven(SumOf(LAMBDA r : r.protein_g, resolved), 1000),
     fat_g |-> RoundHalfEven(SumOf(LAMBDA r : r.fat_g, resolved), 1000),
     carbs_g |-> RoundHalfEven(SumOf(LAMBDA r : r.carbs_g, resolved), 1000)]
\* the totals and the draft that _build_meal_from_items and _handle_food_pick
\* build from the resolved items (the same code in both)
TotalsOf(resolved) ==
    [total_weight_g |-> SumOf(LAMBDA r : r.grams, resolved),
     calories |-> RoundHalfEven(SumOf(LAMBDA r : r.calories, resolved), 1000),
     protein_g |-> RoundHalfEven(SumOf(LAMBDA r : r.protein_g, resolved), 1000),
     fat_g |-> RoundHalfEven(SumOf(LAMBDA r : r.fat_g, resolved), 1000),
     carbs_g |-> RoundHalfEven(SumOf(LAMBDA r : r.carbs_g, resolved), 1000)]

DraftOf(resolved) ==
    [items |-> [i \in 1..Len(resolved) |->
                   [name |-> resolved[i].name,
                    grams |-> resolved[i].grams,
                    calories |-> RoundHalfEven(resolved[i].calories, 1000),
                    protein_g |-> resolved[i].protein_g,
                    fat_g |-> resolved[i].fat_g,
                    carbs_g |-> resolved[i].carbs_g,
                    barcode |-> resolved[i].barcode]],
     totals |-> TotalsOf(resolved)]

\* candidates[:5] of the candidates with all four macros
OFF_PAGE == 5
Usable(cands) == SelectSeq(cands, HasMacros)
FirstN_all(s, n) == s
FirstN(s, n) == SubSeq(s, 1, IF Len(s) < n THEN Len(s) ELSE n)

\* one turn of the loop of _build_meal_from_items: acc is (resolved, unresolved)
BuildItem(acc, it) ==
    IF it.query = "" \/ it.grams <= 0 THEN acc
    ELSE
      LET byCode == IF it.barcode # NoBarcode THEN resolve_by_barcode(it.barcode) ELSE None
          usable == Usable(search(it.query))
          cand == IF byCode # None THEN byCode
                  ELSE IF Len(usable) = 1 THEN usable[1] ELSE None
          macros == IF cand = None THEN None ELSE compute_item_macros(it.grams, cand)
      IN IF byCode = None /\ Len(usable) # 1
         THEN [acc EXCEPT !.unresolved =
                   Append(@, [query |-> it.query, grams |-> it.grams,
                              candidates |-> FirstN(usable, OFF_PAGE)])]
         ELSE IF macros = None
         THEN [acc EXCEPT !.unresolved =
                   Append(@, [query |-> it.query, grams |-> it.grams, candidates |-> <<>>])]
         ELSE [acc EXCEPT !.resolved = Append(@, macros)]

RECURSIVE BuildItems(_, _)
BuildItems(acc, items) ==
    IF items = <<>> THEN acc ELSE BuildItems(BuildItem(acc, Head(items)), Tail(items))

\* _build_meal_from_items: (draft, None) when nothing is unresolved, else
\* (None, context)
_build_meal_from_items(items) ==
    LET acc == BuildItems([resolved |-> <<>>, unresolved |-> <<>>], items)
    IN IF acc.unresolved # <<>>
       THEN [draft |-> None, ctx |-> acc]
       ELSE [draft |-> DraftOf(acc.resolved), ctx |-> None]

(***************************************************************************)
(* Day plans.  What the generative oracle returns for a plan request is    *)
(* drawn from RawPlans; a product name is a text, so that the denylist is  *)
(* checked on its characters.                                              *)
(***************************************************************************)
N_RICE == <<"R", "i", "c", "e">>
N_OATS == <<"O", "a", "t", "s">>
N_WHEY == <<"W", "h", "e", "y", " ", "p", "r", "o", "t", "e", "i", "n", " ", "3", "0", "g">>
N_EMPTY == <<" ">>

RP_EDGE ==
    [meals |-> <<[products |-> <<[name |-> N_OATS, grams |-> 80, store |-> "Albert"]>>,
                  kcal |-> 1200],
                 [products |-> <<[name |-> N_RICE, grams |-> 300, store |-> ""]>>,
                  kcal |-> 940]>>,
     totals_kcal |-> NoNum]
RP_OVER ==
    [meals |-> <<[products |-> <<[name |-> N_RICE, grams |-> 250, store |-> ""]>>,
                  kcal |-> 2248]>>,
     totals_kcal |-> 2248]
RP_WHEY ==
    [meals |-> <<[products |-> <<[name |-> N_RICE, grams |-> 200, store |-> ""],
                                 [name |-> N_WHEY, grams |-> 30, store |-> ""]>>,
                  kcal |-> 2000]>>,
     totals_kcal |-> 2000]
RP_HOLLOW ==
    [meals |-> <<[products |-> <<[name |-> N_RICE, grams |-> 0, store |-> ""]>>,
                  kcal |-> 2000]>>,
     totals_kcal |-> 2000]
RawPlans == {RP_EDGE, RP_OVER, RP_WHEY, RP_HOLLOW}

\* the products _normalize_day_plan keeps: a name after strip() and grams > 0;
\* the store is the request's store, else the product's, else "Lidl"
NormProduct(p, so) ==
    [name |-> Strip(p.name),
     grams |-> p.grams,
     store |-> IF so # "" THEN so ELSE IF p.store # "" THEN p.store ELSE "Lidl"]
KeepProduct(p) == Strip(p.name) # <<>> /\ p.grams # NoNum /\ p.grams > 0
NormProducts(prods, so) ==
    LET kept == SelectSeq(prods, KeepProduct)
    IN [i \in 1..Len(kept) |-> NormProduct(kept[i], so)]

RECURSIVE Flatten(_)
Flatten(ss) == IF ss = <<>> THEN <<>> ELSE Head(ss) \o Flatten(Tail(ss))

\* _normalize_day_plan(plan, store_only): store_only "any" is no constraint;
\* a meal without a kept product is dropped; totals.kcal is the plan's, else the
\* sum of the kept meals' kcal; the shopping list is the kept meals' products
_normalize_day_plan(plan, store_only) ==
    LET so == IF store_only = "any" THEN "" ELSE store_only
        nm == [i \in 1..Len(plan.meals) |->
                  [products |-> NormProducts(plan.meals[i].products, so),
                   kcal |-> plan.meals[i].kcal]]
        norm_meals == SelectSeq(nm, LAMBDA m : m.products # <<>>)
        tot_kcal == IF plan.totals_kcal # NoNum THEN plan.totals_kcal
                    ELSE SumOf(LAMBDA m : IF m.kcal = NoNum THEN 0 ELSE m.kcal, norm_meals)
    IN [meals |-> norm_meals,
        totals |-> [kcal |-> tot_kcal],
        shopping_list |-> Flatten([i \in 1..Len(norm_meals) |-> norm_meals[i].products]),
        meta |-> None]

\* the denylist of _plan_quality_ok
banned ==
    << <<"w", "h", "e", "y">>,
       <<"p", "r", "o", "t", "e", "i", "n", " ", "p", "o", "w", "d", "e", "r">>,
       <<"m", "a", "s", "s", " ", "g", "a", "i", "n", "e", "r">>,
       <<"g", "a", "i", "n", "e", "r">>,
       <<"b", "c", "a">>,
       <<"b", "c", "a", "a">>,
       <<"c", "r", "e", "a", "t", "i", "n", "e">>,
       <<"ru_p", "ru_r", "ru_o", "ru_t", "ru_e", "ru_i", "ru_n">>,
       <<"ru_s", "ru_y", "ru_v", "ru_o", "ru_r", "ru_o", "ru_t">>,
       <<"ru_g", "ru_e", "ru_j", "ru_n", "ru_e", "ru_r">>,
       <<"ru_k", "ru_r", "ru_e", "ru_a", "ru_t", "ru_i", "ru_n">> >>

ProductOk(p) ==
    /\ Strip(p.name) # <<>>
    /\ p.grams # NoNum
    /\ p.grams > 0
    /\ \A b \in 1..Len(banned) : ~Contains(LowerText(Strip(p.name)), banned[b])

Abs(n) == IF n < 0 THEN -n ELSE n

\* _plan_quality_ok(plan, kcal_target)
_plan_quality_ok(plan, kcal_target) ==
    /\ plan.meals # <<>>
    /\ \A i \in 1..Len(plan.meals) :
          /\ plan.meals[i].products # <<>>
          /\ \A j \in 1..Len(plan.meals[i].products) : ProductOk(plan.meals[i].products[j])
    /\ LET kcal == IF plan.totals.kcal # NoNum THEN plan.totals.kcal
                   ELSE SumOf(LAMBDA m : IF m.kcal = NoNum THEN 0 ELSE m.kcal, plan.meals)
       IN 100 * Abs(kcal - kcal_target) <= 7 * kcal_target

(***************************************************************************)
(* jsonutil.py.  dumps wraps a value into its JSON text, loads unwraps it; *)
(* loads of an empty column is None.                                       *)
(***************************************************************************)
dumps(v) == [json |-> v]
loads(j) == IF j = None THEN None ELSE j.json

(***************************************************************************)
(* The calendar.  The model's today is Friday 2018-01-05; a date is the    *)
(* number of days since Monday 2018-01-01, years have 365 days.            *)
(***************************************************************************)
ThisYear == 2018
today_local == 4
Weekday(d) == d % 7
DaysBeforeMonth == <<0, 31, 59, 90, 120, 151, 181, 212, 243, 273, 304, 334>>
DaysInMonth == <<31, 28, 31, 30, 31, 30, 31, 31, 30, 31, 30, 31>>
NoDate == -100000
\* dt.date(yy, mm, dd), NoDate when it raises
DateOf(yy, mm, dd) ==
    IF mm < 1 \/ mm > 12 \/ yy < 1 THEN NoDate
    ELSE IF dd < 1 \/ dd > DaysInMonth[mm] THEN NoDate
    ELSE (yy - ThisYear) * 365 + DaysBeforeMonth[mm] + dd - 1

\* the calorie target that preferences.targets holds for the day: the model's
\* user has set 2000 kcal for weekdays and 2100 kcal for weekends.  This is what
\* _get_day_kcal of _generate_plan_for_days and _active_targets(...)["kcal"] read
ActiveKcal(d) == IF Weekday(d) < 5 THEN 2000 ELSE 2100

(***************************************************************************)
(* The texts a user sends.                                                 *)
(***************************************************************************)
T_CANCEL_WORD == <<"ru_o", "ru_t", "ru_m", "ru_e", "ru_n", "ru_a">>
T_YES_LOUD == <<" ", "RU_D", "RU_A", " ">>
T_NO == <<"ru_n", "ru_e", "ru_t">>
T_ONE == <<"1">>
T_TWO == <<"2">>
T_MEAL == <<"ru_r", "ru_i", "ru_s", " ", "2", "0", "0", " ", "ru_g">>
T_DAY_TWO == <<"ru_d", "ru_e", "ru_n", "ru_soft", " ", "2">>
T_COMPARE == <<"ru_s", "ru_r", "ru_a", "ru_v", "ru_n", "ru_i">>
T_DATE_TODAY == <<"0", "5", ".", "0", "1">>

Texts ==
    {BTN_CANCEL, T_CANCEL_WORD, BTN_MENU, BTN_PLAN, BTN_WEEK, BTN_REMINDERS,
     BTN_PROGRESS, BTN_WEIGHT, T_YES_LOUD, T_NO, T_ONE, T_TWO,
     BC_CHICKEN, BC_WINGS, BTN_TARGETS_AUTO, BTN_TARGETS_CUSTOM,
     BTN_PLAN_TODAY, BTN_PLAN_OTHER_DATE, T_DATE_TODAY,
     BTN_STORE_ANY, BTN_PLAN_APPROVE, BTN_PLAN_REGEN,
     BTN_PLAN_EDIT_CANCEL, T_MEAL, T_DAY_TWO}

\* the affirmatives and negatives of _handle_meal_confirm and
\* _handle_apply_calories
Affirmatives ==
    {<<"ru_d", "ru_a">>, <<"y", "e", "s">>, <<"y">>, <<"ru_o", "ru_k">>,
     <<"ru_a", "ru_g", "ru_a">>}
Negatives == {<<"ru_n", "ru_e", "ru_t">>, <<"n", "o">>, <<"n">>}

(***************************************************************************)
(* The regular expressions of the handlers.                                *)
(***************************************************************************)
IsDigitAt(s, i) == i >= 1 /\ i <= Len(s) /\ s[i] \in Digits
IsWordAt(s, i) == i >= 1 /\ i <= Len(s) /\ IsWordTok(s[i])
StartsAt(s, i, w) == i + Len(w) - 1 <= Len(s) /\ SubSeq(s, i, i + Len(w) - 1) = w
\* \b between positions i - 1 and i
BoundaryAt(s, i) == IsWordAt(s, i - 1) # IsWordAt(s, i)

\* re.search(r"\b\d+\s?(г|гр|kg|кг|ml|мл|шт)\b", s)
Units ==
    {<<"ru_g">>, <<"ru_g", "ru_r">>, <<"k", "g">>, <<"ru_k", "ru_g">>, <<"m", "l">>,
     <<"ru_m", "ru_l">>, <<"ru_sh", "ru_t">>}
HasQuantity(s) ==
    \E i \in 1..Len(s) :
      /\ IsDigitAt(s, i)
      /\ BoundaryAt(s, i)
      /\ LET j == i + Len(DigitRun(SubSeq(s, i, Len(s))))
         IN \E k \in {j, j + 1} : \E w \in Units :
              /\ k = j \/ (j <= Len(s) /\ s[j] = Blank)
              /\ StartsAt(s, k, w)
              /\ BoundaryAt(s, k + Len(w))

MealWords ==
    {<<"ru_s", "ru_hard", "ru_e", "ru_l">>, <<"ru_p", "ru_o", "ru_e", "ru_l">>,
     <<"ru_e", "ru_l", " ">>, <<"ru_z", "ru_a", "ru_v", "ru_t", "ru_r", "ru_a", "ru_k">>,
     <<"ru_o", "ru_b", "ru_e", "ru_d">>, <<"ru_u", "ru_zh", "ru_i", "ru_n">>,
     <<"ru_p", "ru_e", "ru_r", "ru_e", "ru_k", "ru_u", "ru_s">>,
     <<"ru_g", "ru_r", "ru_e", "ru_ch">>, <<"ru_k", "ru_u", "ru_r", "ru_i", "ru_c">>,
     <<"ru_r", "ru_i", "ru_s">>, <<"ru_p", "ru_a", "ru_s", "ru_t", "ru_a">>,
     <<"ru_j", "ru_o", "ru_g", "ru_u", "ru_r">>,
     <<"ru_t", "ru_v", "ru_o", "ru_r", "ru_o", "ru_g">>,
     <<"ru_o", "ru_m", "ru_l", "ru_e", "ru_t">>}

_looks_like_meal(text) ==
    LET t == _norm_text(text)
    IN /\ t # <<>>
       /\ \/ HasQuantity(t)
          \/ \E k \in MealWords : Contains(t, k)
          \/ Contains(t, <<",">>) /\ \E i \in 1..Len(t) : t[i] \in Digits

RiskyWords ==
    {<<"ru_zh", "ru_a", "ru_r">>, <<"ru_g", "ru_r", "ru_i", "ru_l", "ru_soft">>,
     <<"ru_s", "ru_a", "ru_l", "ru_a", "ru_t">>, <<"ru_s", "ru_o", "ru_u", "ru_s">>,
     <<"ru_s", "ru_y", "ru_r">>, <<"ru_o", "ru_r", "ru_e", "ru_h">>,
     <<"ru_m", "ru_a", "ru_j", "ru_o", "ru_n">>, <<"ru_sh", "ru_a", "ru_u", "ru_r">>,
     <<"ru_b", "ru_u", "ru_r", "ru_g", "ru_e", "ru_r">>,
     <<"ru_p", "ru_i", "ru_c", "ru_c">>, <<"ru_p", "ru_a", "ru_s", "ru_t", "ru_a">>}
AmountWords ==
    {<<"ru_m", "ru_a", "ru_s", "ru_l", "ru_o">>, <<"ru_o", "ru_l", "ru_i", "ru_v">>,
     <<"ru_s", "ru_o", "ru_u", "ru_s">>, <<"ru_m", "ru_a", "ru_j", "ru_o", "ru_n">>,
     <<"ru_k", "ru_e", "ru_t", "ru_ch">>, <<"ru_a", "ru_l", "ru_k", "ru_o", "ru_g">>,
     <<"ru_p", "ru_i", "ru_v", "ru_o">>, <<"ru_v", "ru_i", "ru_n", "ru_o">>,
     <<"ru_s", "ru_y", "ru_r", " ">>}
\* the number of questions _needs_hidden_calorie_clarification returns
_needs_hidden_calorie_clarification(user_text) ==
    LET t == _norm_text(user_text)
    IN IF t = <<>> THEN 0
       ELSE IF ~\E k \in RiskyWords : Contains(t, k) THEN 0
       ELSE IF \E k \in AmountWords : Contains(t, k) THEN 0
       ELSE 2

\* re.search(r"(?:день|day)\s*(\d+)", s): the number of the leftmost match,
\* NoNum without a match
DayWords == {<<"ru_d", "ru_e", "ru_n", "ru_soft">>, <<"d", "a", "y">>}
DayMatchAt(s, i) ==
    \E w \in DayWords :
      StartsAt(s, i, w) /\ DigitRun(LStrip(SubSeq(s, i + Len(w), Len(s)))) # <<>>
DayNumber(s) ==
    IF \E i \in 1..Len(s) : DayMatchAt(s, i)
    THEN LET i == CHOOSE k \in 1..Len(s) :
                    DayMatchAt(s, k) /\ \A m \in 1..(k - 1) : ~DayMatchAt(s, m)
             w == CHOOSE v \in DayWords : StartsAt(s, i, v)
         IN IntOf(DigitRun(LStrip(SubSeq(s, i + Len(w), Len(s)))))
    ELSE NoNum

\* (\d{4})-(\d{2})-(\d{2}) at position i
IsoAt(s, i) ==
    /\ \A k \in {0, 1, 2, 3, 5, 6, 8, 9} : IsDigitAt(s, i + k)
    /\ i + 7 <= Len(s) /\ s[i + 4] = "-" /\ s[i + 7] = "-"
IsoDate(s, i) ==
    DateOf(IntOf(SubSeq(s, i, i + 3)), IntOf(SubSeq(s, i + 5, i + 6)),
           IntOf(SubSeq(s, i + 8, i + 9)))

\* (\d{1,2})\.(\d{1,2})(?:\.(\d{4}))? at position i: a match is the lengths of
\* the two groups and whether the year is there; to_end is the $ of re.match
DmMatches(s, i, to_end) ==
    {m \in {1, 2} \X {1, 2} \X {0, 1} :
       LET a == m[1]
           b == m[2]
           e == i + a + 1 + b + 5 * m[3]
       IN /\ \A k \in 0..(a - 1) : IsDigitAt(s, i + k)
          /\ i + a <= Len(s) /\ s[i + a] = "."
          /\ \A k \in 1..b : IsDigitAt(s, i + a + k)
          /\ m[3] = 1 =>
               /\ i + a + b + 1 <= Len(s) /\ s[i + a + b + 1] = "."
               /\ \A k \in 2..5 : IsDigitAt(s, i + a + b + k)
          /\ to_end => e = Len(s) + 1}
\* the match the engine returns: greedy in each group, left to right
DmBest(ms) ==
    CHOOSE m \in ms :
      \A n \in ms : 4 * m[1] + 2 * m[2] + m[3] >= 4 * n[1] + 2 * n[2] + n[3]
DmDate(s, i, to_end) ==
    LET m == DmBest(DmMatches(s, i, to_end))
        a == m[1]
        b == m[2]
    IN DateOf(IF m[3] = 1 THEN IntOf(SubSeq(s, i + a + b + 2, i + a + b + 5)) ELSE ThisYear,
              IntOf(SubSeq(s, i + a + 1, i + a + b)),
              IntOf(SubSeq(s, i, i + a - 1)))
Leftmost(s, P(_)) == CHOOSE i \in 1..Len(s) : P(i) /\ \A k \in 1..(i - 1) : ~P(k)

\* the date plan_when reads from free text (re.search), NoDate when it finds none
SearchDate(s0) ==
    LET iso == IF \E i \in 1..Len(s0) : IsoAt(s0, i)
               THEN IsoDate(s0, Leftmost(s0, LAMBDA i : IsoAt(s0, i)))
               ELSE NoDate
    IN IF iso # NoDate THEN iso
       ELSE IF \E i \in 1..Len(s0) : DmMatches(s0, i, FALSE) # {}
            THEN DmDate(s0, Leftmost(s0, LAMBDA i : DmMatches(s0, i, FALSE) # {}), FALSE)
            ELSE NoDate
\* the date plan_date reads (re.match with ^ and $)
MatchDate(s0) ==
    LET iso == IF IsoAt(s0, 1) /\ Len(s0) = 10 THEN IsoDate(s0, 1) ELSE NoDate
    IN IF iso # NoDate THEN iso
       ELSE IF DmMatches(s0, 1, TRUE) # {} THEN DmDate(s0, 1, TRUE) ELSE NoDate

\* date.isoformat() and date.fromisoformat()
isoformat(d) == [iso |-> d]
fromisoformat(s) == s.iso

T_TODAY == <<"ru_s", "ru_e", "ru_g", "ru_o", "ru_d", "ru_n", "ru_ya">>
T_TOMORROW == <<"ru_z", "ru_a", "ru_v", "ru_t", "ru_r", "ru_a">>
T_AFTER_TOMORROW ==
    <<"ru_p", "ru_o", "ru_s", "ru_l", "ru_e", "ru_z", "ru_a", "ru_v", "ru_t", "ru_r", "ru_a">>

(***************************************************************************)
(* The generative oracle.  What it returns is drawn from the sets below;   *)
(* a call may also raise (error, timeout, output that is no JSON).         *)
(***************************************************************************)
MaxItems == 2

I_RICE == [query |-> "rice", grams |-> 2000, barcode |-> NoBarcode]
I_RICE_TINY == [query |-> "rice", grams |-> 4, barcode |-> NoBarcode]
I_CHICKEN == [query |-> "chicken", grams |-> 1500, barcode |-> NoBarcode]
I_CHICKEN_TINY == [query |-> "chicken", grams |-> 4, barcode |-> NoBarcode]
I_SOUP == [query |-> "soup", grams |-> 3000, barcode |-> NoBarcode]
\* n items none of which the catalogue resolves by itself; a single one is a
\* trace amount
PickItems(n) ==
    [i \in 1..n |-> IF n = 1 THEN I_CHICKEN_TINY ELSE IF i % 2 = 1 THEN I_CHICKEN ELSE I_SOUP]

\* the item lists of MEAL_ITEMS_JSON / PHOTO_TO_ITEMS_JSON answers
ItemLists == {<<>>, <<I_RICE>>, <<I_RICE_TINY>>} \cup {PickItems(n) : n \in 1..MaxItems}
\* the item lists that _start_meal_confirm refuses
RefusedLists == {<<>>, <<I_RICE_TINY>>}
\* the item lists after the answers to the questions about a photo
ClarifiedLists == {<<>>, <<I_RICE>>}
Parsed(nc, q, items) ==
    [needs_clarification |-> nc, clarifying_questions |-> q, items |-> items]
\* the answers to a MEAL_ITEMS_JSON request; clarifying_questions is the
\* number of questions
ParsedMeals ==
    {Parsed(FALSE, 0, items) : items \in ItemLists} \cup
    {Parsed(TRUE, q, <<I_RICE>>) : q \in 0..MaxQuestions}
Raise == [raise |-> TRUE]

\* route["action"] of _agent_route; "none" is the caught exception
RouteActions ==
    {"none", "help", "plan_day", "analyze_week", "update_prefs", "coach_chat",
     "recipe_ai", "log_meal"}

(***************************************************************************)
(* Plan generation: the tier loop of _generate_plan_for_days and of the    *)
(* plan_edit branch of any_text.  An outcome of one call of text_json is   *)
(* an exception, a JSON value that is no object, or a raw plan.  A run of  *)
(* the loop is the sequence of its calls and the value of last_plan when   *)
(* the loop ends.                                                          *)
(***************************************************************************)
openai_plan_model == "gpt-5.2"
openai_plan_model_fast == "gpt-4o-mini"
models_to_try ==
    (IF openai_plan_model_fast # "" THEN <<openai_plan_model_fast>> ELSE <<>>)
      \o <<openai_plan_model>>

PlanOutcomes ==
    {[kind |-> "raise", plan |-> None], [kind |-> "nonobj", plan |-> None]} \cup
    {[kind |-> "plan", plan |-> rp] : rp \in RawPlans}

\* the loop "for m in models_to_try" before its first pass
TierStart ==
    [models |-> models_to_try, models_seen |-> {}, last_plan |-> None, calls |-> <<>>,
     broke |-> FALSE]

\* one pass of the loop without its break
TierPassNoBreak(s, o, kcal_target, store_only) ==
    LET m == Head(s.models)
        rest == [s EXCEPT !.models = Tail(@)]
        called == [rest EXCEPT !.models_seen = @ \cup {m},
                               !.calls = Append(@, [model |-> m, outcome |-> o])]
    IN IF m = "" \/ m \in s.models_seen THEN rest
       ELSE IF o.kind # "plan" THEN called
       ELSE [called EXCEPT !.last_plan = _normalize_day_plan(o.plan, store_only)]

\* one pass of the loop, o being the outcome of text_json when it is called
TierPass(s, o, kcal_target, store_only) ==
    LET m == Head(s.models)
        rest == [s EXCEPT !.models = Tail(@)]
        called == [rest EXCEPT !.models_seen = @ \cup {m},
                               !.calls = Append(@, [model |-> m, outcome |-> o])]
        plan == _normalize_day_plan(o.plan, store_only)
    IN IF m = "" \/ m \in s.models_seen THEN rest
       ELSE IF o.kind # "plan" THEN called
       ELSE [called EXCEPT !.last_plan = plan, !.broke = _plan_quality_ok(plan, kcal_target)]

\* the loop is left by its break or at the end of the list
TierLeft(s) == s.broke \/ s.models = <<>>

RECURSIVE TierRuns(_, _, _)
TierRuns(s, kcal_target, store_only) ==
    IF TierLeft(s) THEN {s}
    ELSE UNION {TierRuns(TierPass(s, o, kcal_target, store_only), kcal_target, store_only)
                : o \in PlanOutcomes}

\* the runs of the loop for one day
DayRuns(kcal_target, store_only) == TierRuns(TierStart, kcal_target, store_only)

\* the loop followed by the first raise statement only
DayAcceptsLastPlan(run, kcal_target) == run.last_plan # None

\* the two raise statements after the loop
DayAccepts(run, kcal_target) ==
    run.last_plan # None /\ _plan_quality_ok(run.last_plan, kcal_target)

\* how the loop and the raise statements end for one day, tabulated over the
\* targets of the week and the stores of the keyboard
Stores == {"any", "Kaufland", "Lidl", "Albert", "PENNY"}
DayEnds ==
    [kcal_target \in {ActiveKcal(d) : d \in 0..6}, store_only \in Stores |->
        {[ok |-> DayAccepts(r, kcal_target), last_plan |-> r.last_plan]
         : r \in DayRuns(kcal_target, store_only)}]

\* the days of one request, one after the other up to the first day that
\* raises: runs are the ends of the days tried, ok is whether all were accepted
RECURSIVE DaysRuns(_, _, _, _)
DaysRuns(start_date, days, store_only, done) ==
    IF Len(done) >= days THEN {[runs |-> done, ok |-> TRUE]}
    ELSE LET kcal_target == ActiveKcal(start_date + Len(done))
         IN UNION {
              IF e.ok
              THEN DaysRuns(start_date, days, store_only, Append(done, e))
              ELSE {[runs |-> Append(done, e), ok |-> FALSE]}
              : e \in DayEnds[kcal_target, store_only]}

\* what _generate_plan_for_days ends with: the list day_plans, and the number
\* of the day that raised when one did
GenResults(start_date, days, store_only) ==
    {[ok |-> g.ok,
      day_plans |-> [i \in 1..(IF g.ok THEN days ELSE Len(g.runs) - 1) |-> g.runs[i].last_plan],
      failed_day |-> IF g.ok THEN 0 ELSE Len(g.runs)]
     : g \in DaysRuns(start_date, days, store_only, <<>>)}

(***************************************************************************)
(* What the handlers read from a message text.  The functions above are    *)
(* applied to the texts of the model only, so each is tabulated once, over *)
(* the texts after message.text.strip().                                   *)
(***************************************************************************)
Stripped == [text \in Texts |-> Strip(text)]
\* texts that only the flows with a validated answer are given
T_AGE == <<"2", "9">>
T_FIVE == <<"5">>
T_HEIGHT == <<"1", "7", "8">>
T_WEIGHT == <<"8", "2", ",", "5">>
T_SEX == <<"ru_m">>
T_ACTIVITY == <<"ru_n", "ru_i", "ru_z", "ru_k", "ru_i", "ru_j">>
T_GOAL == <<"ru_p", "ru_o", "ru_h", "ru_u", "ru_d", "ru_e", "ru_n", "ru_i", "ru_e">>
T_TEMPO == <<"ru_m", "ru_ya", "ru_g", "ru_k", "ru_o">>
T_NUTS == <<"ru_o", "ru_r", "ru_e", "ru_h", "ru_i">>
BC_UNKNOWN == <<"5", "5", "5", "5", "0", "0", "0", "0">>
ValidationTexts ==
    {T_AGE, T_FIVE, T_HEIGHT, T_WEIGHT, T_SEX, T_ACTIVITY, T_GOAL, T_TEMPO, T_NUTS,
     BC_UNKNOWN}
Said == {Strip(text) : text \in Texts \cup ValidationTexts}
norm_text == [t \in Said |-> _norm_text(t)]
maybe_barcode == [t \in Said |-> _maybe_barcode(t)]
parse_int == [t \in Said |-> _parse_int(t)]
parse_float == [t \in Said |-> _parse_float(t)]
isdigit == [t \in Said |-> IsDigit(t)]
looks_like_meal == [t \in Said |-> _looks_like_meal(t)]
hidden_questions == [t \in Said |-> _needs_hidden_calorie_clarification(t)]
day_number == [t \in Said |-> DayNumber(_norm_text(t))]
says_today == [t \in Said |-> Contains(_norm_text(t), T_TODAY)]
says_tomorrow == [t \in Said |-> Contains(_norm_text(t), T_TOMORROW)]
says_after_tomorrow == [t \in Said |-> Contains(_norm_text(t), T_AFTER_TOMORROW)]
search_date == [t \in Said |-> SearchDate(_norm_text(t))]
match_date == [t \in Said |-> MatchDate(_norm_text(t))]

(***************************************************************************)
(* The persisted state of the one user of the model, the generations that  *)
(* are suspended at their oracle calls, and the outcome of the last        *)
(* handler.                                                                *)
(***************************************************************************)
VARIABLES
    dialog_state,      \* users.dialog_state
    dialog_step,       \* users.dialog_step
    dialog_data,       \* users.dialog_data_json
    profile_complete,  \* users.profile_complete
    meals,             \* the user's Meal rows, oldest first
    plans,             \* the user's Plan rows
    gen,               \* the generations in flight, oldest first
    now,               \* seconds since started_at_utc of the dialog payload
    out,               \* what the last handler did
    tier,              \* the tier loop of one day, pass by pass
    plan_rows,         \* the committed rows of the table plans of one user
    writers,           \* the sessions that write to the table plans
    account,           \* the users row: weight, targets and dialog mode
    prefs,             \* preferences.json of the user, as the dict it holds
    wall,              \* the local date of the user
    did,               \* the handler of the last step on account and prefs
    prefs_db,          \* the committed preferences.json of every user
    clock,             \* the local time of the users, in Europe/Prague
    sched,             \* _checkin_loop: its position and its session
    chat,              \* a message handler that changes preferences
    sent,              \* what the scheduler has sent, per user and trigger
    trial,             \* one evaluation of a trigger's time window
    meal_run,          \* one call of _build_meal_from_items
    failure,           \* one failure of an oracle call and the reply to it
    attempt,           \* one text message to a flow that validates its input
    client_run,        \* one call of text_json: the requests it has issued and its end
    food_run,          \* the Food cache and the barcode resolutions made against it
    calc,              \* one call of compute_targets_with_meta: its arguments and its result
    daily_run,         \* one scan of the scheduler over users with a daily check-in
    scan_run           \* the scans of one local date over one daily trigger

bot == <<dialog_state, dialog_step, dialog_data, profile_complete, meals, plans, gen, now, out>>
rows_vars == <<plan_rows, writers>>
weight_vars == <<account, prefs, wall, did>>
sched_vars == <<prefs_db, clock, sched, chat, sent>>
vars == <<bot, tier, rows_vars, weight_vars, sched_vars, trial, meal_run, failure, attempt, client_run, food_run, calc, daily_run, scan_run>>
\* what the handlers, the tier loop, the sessions on plans and the handlers of
\* weight and targets leave alone
beside_bot == <<tier, rows_vars, weight_vars, sched_vars, trial, meal_run, failure, attempt, client_run, food_run, calc, daily_run, scan_run>>
beside_tier == <<bot, rows_vars, weight_vars, sched_vars, trial, meal_run, failure, attempt, client_run, food_run, calc, daily_run, scan_run>>
beside_rows == <<bot, tier, weight_vars, sched_vars, trial, meal_run, failure, attempt, client_run, food_run, calc, daily_run, scan_run>>
beside_weight == <<bot, tier, rows_vars, sched_vars, trial, meal_run, failure, attempt, client_run, food_run, calc, daily_run, scan_run>>
beside_sched == <<bot, tier, rows_vars, weight_vars, trial, meal_run, failure, attempt, client_run, food_run, calc, daily_run, scan_run>>
beside_trial == <<bot, tier, rows_vars, weight_vars, sched_vars, meal_run, failure, attempt, client_run, food_run, calc, daily_run, scan_run>>
beside_meal_run == <<bot, tier, rows_vars, weight_vars, sched_vars, trial, failure, attempt, client_run, food_run, calc, daily_run, scan_run>>
beside_failure == <<bot, tier, rows_vars, weight_vars, sched_vars, trial, meal_run, attempt, client_run, food_run, calc, daily_run, scan_run>>
beside_bot_attempt == <<tier, rows_vars, weight_vars, sched_vars, trial, meal_run, failure, client_run, food_run, calc, daily_run, scan_run>>
beside_bot_meal_run == <<tier, rows_vars, weight_vars, sched_vars, trial, failure, attempt, client_run, food_run, calc, daily_run, scan_run>>
beside_client_run == <<bot, tier, rows_vars, weight_vars, sched_vars, trial, meal_run, failure, attempt, food_run, calc, daily_run, scan_run>>
beside_food_run == <<bot, tier, rows_vars, weight_vars, sched_vars, trial, meal_run, failure, attempt, client_run, calc, daily_run, scan_run>>
beside_calc == <<bot, tier, rows_vars, weight_vars, sched_vars, trial, meal_run, failure, attempt, client_run, food_run, daily_run, scan_run>>
beside_daily_run == <<bot, tier, rows_vars, weight_vars, sched_vars, trial, meal_run, failure, attempt, client_run, food_run, calc, scan_run>>
beside_scan_run == <<bot, tier, rows_vars, weight_vars, sched_vars, trial, meal_run, failure, attempt, client_run, food_run, calc, daily_run>>

\* UserRepo.set_dialog: the in-memory user after the call
set_dialog(state, step, data) ==
    [state |-> state, step |-> step, data |-> IF data # None THEN dumps(data) ELSE None]
Idle == set_dialog(Null, NoStep, None)

\* the user object a session loads
Loaded == [state |-> dialog_state, step |-> dialog_step, data |-> dialog_data]
\* UserRepo.get_dialog_data
get_dialog_data == loads(dialog_data)

\* db.commit() of a session that has loaded the user as `was` and holds it as
\* `user` now: the UPDATE carries the columns whose value has changed
Flush(was, user) ==
    /\ dialog_state' = IF user.state # was.state THEN user.state ELSE dialog_state
    /\ dialog_step' = IF user.step # was.step THEN user.step ELSE dialog_step
    /\ dialog_data' = IF user.data # was.data THEN user.data ELSE dialog_data

\* the clock is kept relative to started_at_utc of the plan_generating payload,
\* the one timestamp the handlers compare it with
Clock == now' = IF dialog_state' = "plan_generating" THEN now ELSE 0

(***************************************************************************)
(* A handler is a set of results, one per outcome of the oracles it calls: *)
(* the in-memory user it ends with, whether it commits, its branch, its    *)
(* reply, whether it ends by an uncaught exception, the rows it leaves,    *)
(* and the generation it starts.                                           *)
(***************************************************************************)
Res(user, commit, h, reply) ==
    [user |-> user, commit |-> commit, h |-> h, reply |-> reply, raised |-> FALSE,
     meals |-> meals, plans |-> plans, profile_complete |-> profile_complete,
     start |-> None, pick |-> "none", abandoned |-> FALSE, action |-> "none"]
Raises(h) == [Res(Loaded, FALSE, h, "none") EXCEPT !.raised = TRUE]

\* what is kept of the last outcome: the tag and the reply when they are
\* among the watched ones, and for a cancel literal the mode it was sent in
\* the entry points beside any_text that set a mode: /plan, a photo, a voice
\* message
EntryTags == {"plan.when", "photo.clarify", "voice.clarify", "voice.built"}
WatchedTags ==
    {"init", "meal_confirm.yes", "plan_edit.patched", "plan_edit.failed", "plan_edit.memory",
     "plan_edit.approve", "generate.done", "generate.failed_first", "generate.failed_later"} \cup EntryTags
\* the branches in which a flow hands the text of the message to its oracle
\* as the answer of the flow: the extractor of the onboarding, and the memory
\* extractor of targets_custom
FlowInputTags ==
    {"coach_onboarding.oracle", "coach_onboarding.ask", "coach_onboarding.done",
     "targets_custom.memory", "targets_custom.reprompt", "targets_custom.done"}
\* the labels of the menu and help buttons
EscapeTexts == {BTN_MENU, BTN_HELP}
\* the branches that belong to an action tag of the router; a message tagged
\* update_prefs that the memory extractor declines goes on to the fallback
RouteTags(action) ==
    CASE action = "log_meal" -> {"meal.error", "meal.clarify", "meal.built"}
      [] action = "coach_chat" -> {"coach_chat"}
      [] action = "recipe_ai" -> {"recipe.error", "recipe.clarify", "recipe.built"}
      [] action = "update_prefs" ->
           {"route.update_prefs", "coach_chat", "meal.error", "meal.clarify", "meal.built"}
      [] action = "help" -> {"route.help"}
      [] action = "show_profile" -> {"route.show_profile"}
      [] action = "update_weight" -> {"route.update_weight"}
      [] action = "plan_day" -> {"route.plan_day"}
      [] action = "recall_plan" -> {"route.recall_plan"}
      [] action = "unknown" -> {"route.unknown"}
      [] action = "analyze_week" -> {"week.done", "week.error", "week.noprofile", "week.adjust"}
      [] OTHER -> {}
WatchedReplies == {"none", "unrecognised", "retry", "plans", "confirm", "reset", "wait"}
Seen(h, reply, raised, commit, cancel, pick, abandoned) ==
    [h |-> IF h \in WatchedTags THEN h ELSE "other",
     reply |-> IF reply \in WatchedReplies THEN reply ELSE "reply",
     raised |-> raised,
     commit |-> commit,
     cancel |-> cancel,
     mode |-> IF cancel THEN dialog_state ELSE Null,
     pick |-> pick,
     abandoned |-> abandoned,
     swallowed |-> FALSE,
     route |-> "none",
     text |-> <<>>]

\* a generation awaits the oracle for a finite time: at most MaxMeanwhile
\* updates are handled while one is in flight
MaxMeanwhile == 1
Awaiting == \A i \in 1..Len(gen) : gen[i].handled < MaxMeanwhile
Meanwhile == [i \in 1..Len(gen) |-> [gen[i] EXCEPT !.handled = @ + 1]]

\* the message handler with text t ends with result r
Effect(r, t) ==
    /\ Awaiting
    /\ IF r.commit THEN Flush(Loaded, r.user) ELSE UNCHANGED <<dialog_state, dialog_step, dialog_data>>
    /\ meals' = r.meals
    /\ plans' = r.plans
    /\ profile_complete' = r.profile_complete
    /\ gen' = IF r.start = None THEN Meanwhile ELSE Append(Meanwhile, r.start)
    /\ out' = [Seen(r.h, r.reply, r.raised, r.commit, t = CancelLiteral, r.pick, r.abandoned)
                 EXCEPT !.swallowed = t \in EscapeTexts /\ r.h \in FlowInputTags,
                        !.route = IF r.action = "none" THEN "none"
                                  ELSE IF r.h \in RouteTags(r.action) THEN r.action
                                  ELSE "elsewhere",
                        !.text = IF r.h = "plan_edit.patched" THEN t ELSE <<>>]
    /\ Clock
Apply(r, t) == Effect(r, t) /\ UNCHANGED beside_bot

\* a new user: UserRepo.get_or_create, and no row of any other table
Created ==
    /\ dialog_state = Null
    /\ dialog_step = NoStep
    /\ dialog_data = None
    /\ profile_complete = FALSE
    /\ meals = <<>>
    /\ plans = {}
    /\ gen = <<>>
    /\ now = 0
    /\ out = Seen("init", "none", FALSE, FALSE, FALSE, "none", FALSE)

\* the tier loop of a day with target kcal_target for store store_only, before
\* its first pass
TierOf(kcal_target, store_only) ==
    [kcal_target |-> kcal_target, store_only |-> store_only, loop |-> TierStart,
     end |-> "running"]

CreatedTier == tier = TierOf(ActiveKcal(today_local), "any")

\* the sessions that write Plan rows: a session is between two awaits of
\* PlanRepo.upsert_day_plan, the rows it has added and changed are its own
\* until it commits
MaxWriters == 2
Writers == 1..MaxWriters
NoRow == <<>>
Ready == [pc |-> "idle", op |-> "none", todo |-> <<>>, found |-> NoRow, added |-> {},
          changed |-> {}, done |-> 0]
CreatedRows == plan_rows = {} /\ writers = [w \in Writers |-> Ready]

\* nutrition.py, for a man of 30 years and 180 cm with low activity who wants
\* to lose weight; weights are whole kilograms, deficit_pct is in hundredths
Profile == [sex |-> "male", age |-> 30, height_cm |-> 180, weight_kg |-> 80,
            activity_level |-> "low", goal |-> "loss", deficit_pct |-> 15]
bmr_mifflin_st_jeor(weight_kg) ==
    10 * weight_kg + (625 * Profile.height_cm) \div 100 - 5 * Profile.age + 5
\* 1000 * _activity_multiplier("low")
ActivityLow == 1200
Min(a, b) == IF a < b THEN a ELSE b
Max(a, b) == IF a > b THEN a ELSE b
\* clamp_deficit_pct("loss", pct)
clamp_deficit_pct(pct) == Max(Min(pct, 30), 10)
macros_for_targets(calories, weight_kg) ==
    LET protein == RoundHalfEven(16 * weight_kg, 10)
        fat == RoundHalfEven(8 * weight_kg, 10)
        carbs_kcal == Max(calories - (protein * 4 + fat * 9), 0)
    IN [calories |-> calories, protein_g |-> protein, fat_g |-> fat,
        carbs_g |-> RoundHalfEven(carbs_kcal, 4)]
compute_targets_with_meta(weight_kg, deficit_pct) ==
    LET b == bmr_mifflin_st_jeor(weight_kg)
        pct == clamp_deficit_pct(deficit_pct)
        cal == RoundHalfEven(b * ActivityLow * (100 - pct), 100000)
    IN [t |-> macros_for_targets(cal, weight_kg),
        meta |-> [bmr_kcal |-> b, tdee_kcal |-> RoundHalfEven(b * ActivityLow, 1000),
                  deficit_pct |-> pct]]

\* dict.update of PreferenceRepo.merge
merge(obj, patch) ==
    [k \in DOMAIN obj \cup DOMAIN patch |-> IF k \in DOMAIN patch THEN patch[k] ELSE obj[k]]

\* the end of the coach onboarding
Onboarded ==
    LET c == compute_targets_with_meta(Profile.weight_kg, Profile.deficit_pct)
    IN [account |-> [weight_kg |-> Profile.weight_kg, calories_target |-> c.t.calories,
                     protein_g_target |-> c.t.protein_g, fat_g_target |-> c.t.fat_g,
                     carbs_g_target |-> c.t.carbs_g, dialog_state |-> "targets_mode",
                     dialog_data_json |-> None],
        prefs |-> [deficit_pct |-> c.meta.deficit_pct, bmr_kcal |-> c.meta.bmr_kcal,
                   tdee_kcal |-> c.meta.tdee_kcal, targets |-> c.t,
                   targets_source |-> "coach"]]
CreatedWeight ==
    /\ account = Onboarded.account
    /\ prefs = Onboarded.prefs
    /\ wall = today_local
    /\ did = [op |-> "onboarding", path |-> "none"]

\* the scheduler and the users it scans: every user has a complete profile
\* and no timezone in the preferences, which no handler writes
MaxUsers == 2
Users == 1..MaxUsers
\* the scans around six o'clock: the clock runs from 05:59 to 06:02
FirstScan == [hh |-> 5, mm |-> 59]
LastScan == [hh |-> 6, mm |-> 2]
Triggers == {"checkin", "weight", "r0", "r1"}
Asleep ==
    [pc |-> "sleep", u |-> 0, now |-> None, prefs |-> None, doc |-> None, idx |-> 0,
     updated_last |-> None, ok |-> {}, raised |-> {}, evaluated |-> {}]
Unsent == [u \in Users |-> [x \in Triggers |-> [date |-> NoDate, times |-> 0]]]
CreatedSched ==
    /\ prefs_db = [u \in Users |-> Onboarded.prefs]
    /\ clock = [date |-> today_local, hh |-> FirstScan.hh, mm |-> FirstScan.mm]
    /\ sched = [Asleep EXCEPT !.pc = "wake"]
    /\ chat = [pc |-> "idle", u |-> 0, doc |-> None, patch |-> None, runs |-> 0]
    /\ sent = Unsent
NoTrial == [tstr |-> None, timezone |-> None, now_utc |-> None, evaluated |-> FALSE, eligible |-> FALSE]
CreatedTrial == trial = NoTrial
NoMealRun == [items |-> <<>>, called |-> FALSE, acc |-> None, draft |-> None, ctx |-> None]
CreatedMealRun == meal_run = NoMealRun
NoFailure == [path |-> "none", e |-> <<>>, replied |-> FALSE, text |-> <<>>, scrubbed |-> FALSE]
CreatedFailure == failure = NoFailure
NoAttempt == [done |-> FALSE, text |-> <<>>, before |-> None, h |-> "none", reply |-> "none", raised |-> FALSE]
CreatedAttempt == attempt = NoAttempt
NoClientRun == [has_responses_api |-> FALSE, phase |-> "idle", stage |-> "none", response_format |-> FALSE,
                last_err |-> None, call |-> 0, reqs |-> <<>>, replies |-> <<>>, result |-> None]
CreatedClientRun == client_run = NoClientRun
NoFoodRun == [foods |-> {}, log |-> <<>>]
CreatedFoodRun == food_run = NoFoodRun
NoCalc == [args |-> None, t |-> None, meta |-> None]
CreatedCalc == calc = NoCalc
NoDailyRun ==
    [pc |-> "sleep", u |-> 0, now |-> None, prefs |-> <<>>, users |-> <<>>,
     session |-> <<>>, prompted |-> {}, raised |-> {}]
CreatedDailyRun == daily_run = NoDailyRun
NoScanRun == [prefs |-> None, now |-> 0, fired |-> FALSE]
CreatedScanRun == scan_run = NoScanRun

Init ==
    /\ Created
    /\ CreatedTier
    /\ CreatedRows
    /\ CreatedWeight
    /\ CreatedSched
    /\ CreatedTrial
    /\ CreatedMealRun
    /\ CreatedFailure
    /\ CreatedAttempt
    /\ CreatedClientRun
    /\ CreatedFoodRun
    /\ CreatedCalc
    /\ CreatedDailyRun
    /\ CreatedScanRun

(***************************************************************************)
(* The meal pipeline.                                                      *)
(***************************************************************************)
\* _start_meal_confirm without its guard
_start_meal_confirm_unguarded(draft, source, photo_file_id) ==
    [user |-> set_dialog("meal_confirm", 1,
                  [draft |-> draft, source |-> source, photo_file_id |-> photo_file_id]),
     reply |-> "confirm"]

\* _start_meal_confirm: the in-memory user it leaves and its reply
_start_meal_confirm(draft, source, photo_file_id) ==
    IF draft.items = <<>> \/ draft.totals.total_weight_g <= 0
    THEN [user |-> Idle, reply |-> "unrecognised"]
    ELSE [user |-> set_dialog("meal_confirm", 1,
                      [draft |-> draft, source |-> source, photo_file_id |-> photo_file_id]),
          reply |-> "confirm"]

\* the common end of the text, voice, recipe and clarification paths:
\* _build_meal_from_items, then food_pick or _start_meal_confirm
Built(items, source, photo_file_id) ==
    LET b == _build_meal_from_items(items)
    IN IF b.ctx # None
       THEN [user |-> set_dialog("food_pick", 0,
                        [ctx |-> b.ctx, source |-> source, photo_file_id |-> photo_file_id]),
             reply |-> "pick"]
       ELSE _start_meal_confirm(b.draft, source, photo_file_id)

\* Built, tabulated over the answers of the oracle
Sources == {"text", "voice", "recipe", "photo"}
\* message.photo[-1].file_id
PhotoId == [file_id |-> "AgAC"]
Builds ==
    [items \in ItemLists \cup RefusedLists \cup ClarifiedLists, source \in Sources,
     photo_file_id \in {None, PhotoId} |-> Built(items, source, photo_file_id)]

\* add_meal that leaves the columns of the totals empty
add_meal_without_totals(source, meal_json, totals, photo_file_id) ==
    [source |-> source, meal_json |-> dumps(meal_json), photo_file_id |-> photo_file_id,
     calories |-> NoNum, protein_g |-> NoNum, fat_g |-> NoNum, carbs_g |-> NoNum,
     total_weight_g |-> NoNum]

\* MealRepo.add_meal: the new row
add_meal(source, meal_json, totals, photo_file_id) ==
    [source |-> source, meal_json |-> dumps(meal_json), photo_file_id |-> photo_file_id,
     calories |-> totals.calories, protein_g |-> totals.protein_g, fat_g |-> totals.fat_g,
     carbs_g |-> totals.carbs_g, total_weight_g |-> totals.total_weight_g]

(***************************************************************************)
(* The tail of any_text, from the router down.  u is the in-memory user.   *)
(***************************************************************************)
\* /week, also behind the Week button and the analyze_week route: a session
\* of its own
cmd_week_results ==
    IF ~profile_complete THEN {Res(Loaded, FALSE, "week.noprofile", "needprofile")}
    ELSE {Raises("week.error"),
          Res(Loaded, TRUE, "week.done", "analysis"),
          Res(set_dialog("apply_calories", 1, [new_calories |-> 1900]), TRUE,
              "week.adjust", "apply")}

\* the text path of any_text: text -> items -> macros
MealText(t, u) ==
    {IF p = Raise THEN Res(u, FALSE, "meal.error", "error")
     ELSE IF p.needs_clarification /\ p.clarifying_questions > 0
     THEN Res(set_dialog("meal_clarify", 0,
                  [draft |-> p, questions |-> p.clarifying_questions, answers |-> 0,
                   source |-> "text"]), TRUE, "meal.clarify", "question")
     ELSE IF ~p.needs_clarification /\ hidden_questions[t] > 0
     THEN Res(set_dialog("meal_clarify", 0,
                  [draft |-> p, questions |-> hidden_questions[t],
                   answers |-> 0, source |-> "text"]), TRUE, "meal.clarify", "question")
     ELSE Res(Builds[p.items, "text", None].user, TRUE, "meal.built",
              Builds[p.items, "text", None].reply)
     : p \in ParsedMeals \cup {Raise}}

_handle_recipe_ai(t, u) ==
    {IF p = Raise THEN Res(u, TRUE, "recipe.error", "error")
     ELSE IF p.needs_clarification /\ p.clarifying_questions > 0
     THEN Res(set_dialog("meal_clarify", 0,
                  [draft |-> p, questions |-> p.clarifying_questions, answers |-> 0,
                   source |-> "recipe"]), TRUE, "recipe.clarify", "question")
     ELSE Res(Builds[p.items, "recipe", None].user, TRUE, "recipe.built",
              Builds[p.items, "recipe", None].reply)
     : p \in {Parsed(FALSE, 0, items) : items \in RefusedLists} \cup {Raise}}

\* _handle_coach_chat answers every non-empty text, an oracle error included
_handle_coach_chat(u) == {Res(u, TRUE, "coach_chat", "answer")}

\* "Default fallback" and "Otherwise: treat as meal"
Fallback(t, u) ==
    IF ~looks_like_meal[t] THEN _handle_coach_chat(u) ELSE MealText(t, u)

RouteTo(action, t, u) ==
    CASE action = "help" -> {Res(u, FALSE, "route.help", "help")}
      [] action = "show_profile" -> {Res(u, FALSE, "route.show_profile", "profile")}
      [] action = "update_weight" -> {Res(u, TRUE, "route.update_weight", "weight")}
      [] action = "plan_day" ->
           {Res(set_dialog("plan_when", 0, None), TRUE, "route.plan_day", "when")}
      [] action = "analyze_week" -> cmd_week_results
      [] action = "update_prefs" ->
           {Raises("route.update_prefs"), Res(u, TRUE, "route.update_prefs", "ack")}
             \cup Fallback(t, u)
      [] action = "recall_plan" -> {Res(u, TRUE, "route.recall_plan", "plan")}
      [] action = "coach_chat" -> _handle_coach_chat(u)
      [] action = "recipe_ai" -> _handle_recipe_ai(t, u)
      [] action = "unknown" -> {Res(u, FALSE, "route.unknown", "note")}
      [] OTHER -> Fallback(t, u)

Router(t, u) ==
    UNION {{[r EXCEPT !.action = action] : r \in RouteTo(action, t, u)} :
             action \in RouteActions}

(***************************************************************************)
(* The plan wizard and plan_edit.                                          *)
(***************************************************************************)
MaxInFlight == 2

\* the request _generate_plan_for_days works on, with the user object of the
\* session it runs in
Request(start_date, days, store_only, user) ==
    [start_date |-> start_date, days |-> days, store_only |-> store_only, user |-> user,
     handled |-> 0]

\* prev_data.get("days_prefill") when it is an int, NoNum else
Prefill(data) == IF data = None THEN NoNum ELSE data.days_prefill
ValidPrefill(data) ==
    IF Prefill(data) # NoNum /\ 1 <= Prefill(data) /\ Prefill(data) <= 7
    THEN Prefill(data) ELSE NoNum

ToStore(start_date, data) ==
    Res(set_dialog("plan_store", 0,
            [start_date |-> isoformat(start_date), days_prefill |-> Prefill(data)]),
        TRUE, "plan.store", "store")
\* the reply that closes the wizard when no date is read
DateReply_closing(start_date, data, u, h) ==
    IF start_date = NoDate THEN Res(Idle, TRUE, h, "nodate")
    ELSE IF start_date < today_local THEN Res(u, FALSE, h, "past")
    ELSE ToStore(start_date, data)
DateReply(start_date, data, u, h) ==
    IF start_date = NoDate THEN Res(u, FALSE, h, "nodate")
    ELSE IF start_date < today_local THEN Res(u, FALSE, h, "past")
    ELSE ToStore(start_date, data)

plan_when(t, u) ==
    LET prev_data == loads(u.data)
    IN IF t = BTN_PLAN_TODAY \/ says_today[t]
       THEN {ToStore(today_local, prev_data)}
       ELSE IF t = BTN_PLAN_TOMORROW \/ says_tomorrow[t]
       THEN {ToStore(today_local + 1, prev_data)}
       ELSE IF t = BTN_PLAN_AFTER_TOMORROW \/ says_after_tomorrow[t]
       THEN {ToStore(today_local + 2, prev_data)}
       ELSE IF t = BTN_PLAN_OTHER_DATE
       THEN {Res(set_dialog("plan_date", 0, prev_data), TRUE, "plan.other_date", "date")}
       ELSE {DateReply(search_date[t], prev_data, u, "plan_when.reprompt")}

plan_date(t, u) ==
    {DateReply(match_date[t], loads(u.data), u, "plan_date.reprompt")}

store_choice(t) ==
    CASE t = BTN_STORE_ANY -> "any"
      [] t = BTN_STORE_KAUFLAND -> "Kaufland"
      [] t = BTN_STORE_LIDL -> "Lidl"
      [] t = BTN_STORE_ALBERT -> "Albert"
      [] t = BTN_STORE_PENNY -> "PENNY"
      [] OTHER -> Null

plan_store(t, u) ==
    IF store_choice(t) = Null THEN {Res(u, FALSE, "plan_store.reprompt", "store")}
    ELSE {Res(set_dialog("plan_days", 0,
                  [start_date |-> IF loads(u.data) = None THEN isoformat(today_local)
                                  ELSE isoformat(fromisoformat(loads(u.data).start_date)),
                   store_only |-> store_choice(t),
                   days_prefill |-> ValidPrefill(loads(u.data))]),
              TRUE, "plan.days", "days")}

plan_days(t, u) ==
    LET data == loads(u.data)
        n == IF parse_int[t] # NoNum THEN parse_int[t] ELSE ValidPrefill(data)
        start_date == IF data = None THEN today_local ELSE fromisoformat(data.start_date)
        store_only == IF data = None THEN "any" ELSE data.store_only
        generating ==
            set_dialog("plan_generating", 0,
                [start_date |-> isoformat(start_date), days |-> n,
                 store_only |-> store_only, started_at_utc |-> now])
    IN IF n = NoNum \/ n < 1 \/ n > 7
       THEN {Res(u, FALSE, "plan_days.reprompt", "days")}
       ELSE IF n > MaxDays \/ Len(gen) >= MaxInFlight THEN {}
       ELSE {[Res(generating, TRUE, "plan_days.generate", "preparing")
                EXCEPT !.start = Request(start_date, n, store_only, generating)]}

PlanWizard(t, u) ==
    IF t \in {BTN_CANCEL, CancelLiteral, BTN_MENU}
    THEN {Res(Idle, TRUE, "plan.cancel", "cancelled")}
    ELSE CASE u.state = "plan_when" -> plan_when(t, u)
           [] u.state = "plan_date" -> plan_date(t, u)
           [] u.state = "plan_store" -> plan_store(t, u)
           [] OTHER -> plan_days(t, u)

\* PlanRepo.upsert_day_plan and PlanRepo.get_day_plan_json
upsert_day_plan(rows, date, calories_target, plan) ==
    {r \in rows : r.date # date} \cup
    {[date |-> date, calories_target |-> calories_target, plan_json |-> dumps(plan)]}
get_day_plan_json(rows, date) ==
    IF \E r \in rows : r.date = date
    THEN loads((CHOOSE r \in rows : r.date = date).plan_json)
    ELSE None

\* the loop of the Approve button over the days of the request
RECURSIVE Approved(_, _, _)
Approved(rows, start_date, days) ==
    IF days = 0 THEN rows
    ELSE LET d == start_date + days - 1
             p == get_day_plan_json(rows, d)
             rest == Approved(rows, start_date, days - 1)
         IN IF p = None THEN rest
            ELSE upsert_day_plan(rest, d, NoNum, [p EXCEPT !.meta = [approved |-> TRUE]])

Clamp_none(n, lo, hi) == n
Clamp(n, lo, hi) == IF n < lo THEN lo ELSE IF n > hi THEN hi ELSE n

plan_edit(t0, u) ==
    LET data == loads(u.data)
        start_date == fromisoformat(data.start_date)
        days == data.days
        store_only == data.store_only
        day_idx == IF day_number[t0] = NoNum THEN 1
                   ELSE Clamp(day_number[t0], 1, days)
        edit_date == start_date + day_idx - 1
        kcal_target == ActiveKcal(edit_date)
    IN IF t0 \in {BTN_PLAN_EDIT_CANCEL, BTN_MENU, BTN_CANCEL, CancelLiteral}
       THEN {Res(Idle, TRUE, "plan_edit.cancel", "closed")}
       ELSE IF t0 = BTN_PLAN_REGEN
       THEN IF Len(gen) >= MaxInFlight THEN {}
            ELSE {[Res(u, FALSE, "plan_edit.regen", "none")
                     EXCEPT !.start = Request(start_date, days, store_only, u)]}
       ELSE IF t0 = BTN_PLAN_APPROVE
       THEN {[Res(Idle, TRUE, "plan_edit.approve", "approved")
                EXCEPT !.plans = Approved(plans, start_date, days)]}
       ELSE {Raises("plan_edit.memory")} \cup
            {IF e.ok
             THEN [Res(u, TRUE, "plan_edit.patched", "plans")
                     EXCEPT !.plans = upsert_day_plan(plans, edit_date, kcal_target,
                                                      e.last_plan)]
             ELSE Raises("plan_edit.failed")
             : e \in DayEnds[kcal_target, store_only]}

\* any_text from "if not user.profile_complete" on
Rest(t, u) ==
    IF ~profile_complete THEN {Res(u, FALSE, "noprofile", "needprofile")}
    ELSE IF t \in {BTN_MENU, BTN_HELP, BTN_PROFILE, BTN_PHOTO_HELP, BTN_LOG_MEAL}
    THEN {Res(u, FALSE, "menu.info", "info")}
    ELSE IF t = BTN_PLAN
    THEN {Res(set_dialog("plan_when", 0, None), TRUE, "menu.plan", "when")}
    ELSE IF t = BTN_WEEK THEN cmd_week_results
    ELSE IF t = BTN_REMINDERS
    THEN {Res(set_dialog("reminders_setup", 0, None), TRUE, "menu.reminders", "prompt")}
    ELSE IF t = BTN_PROGRESS
    THEN {Res(set_dialog("progress_mode", 0, None), TRUE, "menu.progress", "prompt")}
    ELSE IF t = BTN_WEIGHT
    THEN {Res(set_dialog("set_weight", 0, None), TRUE, "menu.weight", "prompt")}
    ELSE IF u.state = "reminders_setup"
    THEN IF t = CancelLiteral THEN {Res(Idle, TRUE, "reminders.cancel", "cancelled")}
         ELSE {Raises("reminders.memory"),
               Res(Idle, TRUE, "reminders.saved", "ack"),
               Res(Idle, TRUE, "reminders.unclear", "unclear")}
    ELSE IF u.state = "progress_mode"
    THEN IF t = CancelLiteral THEN {Res(Idle, TRUE, "progress.cancel", "cancelled")}
         ELSE IF \E w \in {T_COMPARE,
                           <<"ru_a", "ru_n", "ru_a", "ru_l", "ru_i", "ru_z">>,
                           <<"ru_p", "ru_r", "ru_o", "ru_g", "ru_r", "ru_e", "ru_s", "ru_s">>} :
                   Contains(norm_text[t], w)
         THEN {Res(u, TRUE, "progress.compare", "answer")}
         ELSE {Res(u, TRUE, "progress.note", "saved")}
    ELSE IF u.state = "set_weight"
    THEN IF parse_float[t] = NoNum THEN {Res(u, FALSE, "set_weight.reprompt", "prompt")}
         ELSE {Res(Idle, TRUE, "set_weight.done", "weight")}
    ELSE IF u.state \in {"plan_when", "plan_date", "plan_store", "plan_days"}
    THEN PlanWizard(t, u)
    ELSE IF u.state = "plan_edit" THEN plan_edit(t, u)
    ELSE Router(t, u)

(***************************************************************************)
(* The flow handlers any_text tries in turn.                               *)
(***************************************************************************)
_handle_targets_mode(t0) ==
    IF dialog_state = "targets_mode"
    THEN IF t0 \in {CancelLiteral, BTN_MENU}
         THEN {Res(Idle, TRUE, "targets_mode.cancel", "cancelled")}
         ELSE IF t0 = BTN_TARGETS_AUTO THEN {Res(Idle, TRUE, "targets_mode.auto", "ack")}
         ELSE IF t0 = BTN_TARGETS_CUSTOM
         THEN {Res(set_dialog("targets_custom", 0, None), TRUE, "targets_mode.custom", "prompt")}
         ELSE {Res(Loaded, TRUE, "targets_mode.reprompt", "prompt")}
    ELSE {Raises("targets_custom.memory"),
          Res(Loaded, TRUE, "targets_custom.reprompt", "prompt"),
          Res(Idle, TRUE, "targets_custom.done", "ack")}

_handle_daily_checkin(t0) ==
    IF t0 \in {CancelLiteral, BTN_MENU, BTN_HELP}
    THEN {Res(Idle, TRUE, "daily_checkin.cancel", "cancelled")}
    ELSE {Res(Idle, TRUE, "daily_checkin.done", "ack")}

\* the oracle finds nothing, part, or all of the required profile, or raises
_handle_coach_onboarding(t) ==
    LET data == IF get_dialog_data = None THEN [profile |-> "empty", prefs |-> "empty"]
                ELSE get_dialog_data
    IN {Raises("coach_onboarding.oracle"),
        Res(set_dialog("coach_onboarding", 1, data), TRUE, "coach_onboarding.ask", "question"),
        Res(set_dialog("coach_onboarding", 1, [data EXCEPT !.profile = "partial"]), TRUE,
            "coach_onboarding.ask", "question"),
        [Res(set_dialog("targets_mode", 0, [coach_targets |-> "computed"]), TRUE,
             "coach_onboarding.done", "targets")
           EXCEPT !.profile_complete = TRUE]}

\* the answers of the ten questions of _handle_onboarding_step
W_LOW == <<"ru_n", "ru_i", "ru_z">>
W_MEDIUM == <<"ru_s", "ru_r", "ru_e", "ru_d">>
W_HIGH == <<"ru_v", "ru_y", "ru_s">>
W_RECOMP == <<"ru_r", "ru_e", "ru_k", "ru_o", "ru_m", "ru_p">>
W_GAIN == <<"ru_n", "ru_a", "ru_b", "ru_o", "ru_r">>
W_KEEP == <<"ru_p", "ru_o", "ru_d", "ru_d", "ru_e", "ru_r", "ru_zh">>
_map_sex(text) ==
    LET s == _norm_text(text)
    IN IF s \in {<<"ru_m">>, <<"m">>, <<"m", "a", "l", "e">>, <<"ru_m", "ru_u", "ru_zh">>,
                 <<"ru_m", "ru_u", "ru_zh", "ru_ch", "ru_i", "ru_n", "ru_a">>,
                 <<"ru_m", "ru_u", "ru_zh", "ru_s", "ru_k", "ru_o", "ru_j">>}
       THEN "male"
       ELSE IF s \in {<<"ru_zh">>, <<"f">>, <<"f", "e", "m", "a", "l", "e">>,
                      <<"ru_zh", "ru_e", "ru_n">>,
                      <<"ru_zh", "ru_e", "ru_n", "ru_sch", "ru_i", "ru_n", "ru_a">>,
                      <<"ru_zh", "ru_e", "ru_n", "ru_s", "ru_k", "ru_i", "ru_j">>}
       THEN "female"
       ELSE Null
_map_activity(text) ==
    LET s == _norm_text(text)
    IN IF Contains(s, W_LOW) THEN "low"
       ELSE IF Contains(s, W_MEDIUM) THEN "medium"
       ELSE IF Contains(s, W_HIGH) THEN "high"
       ELSE Null
_map_goal(text) ==
    LET s == _norm_text(text)
        has(ws) == \E w \in ws : Contains(s, w)
    IN IF has({<<"ru_p", "ru_o", "ru_h">>, <<"ru_s", "ru_u", "ru_sh">>,
               <<"ru_s", "ru_n", "ru_i", "ru_z">>})
       THEN "loss"
       ELSE IF has({<<"ru_p", "ru_o", "ru_d", "ru_d">>, W_KEEP,
                    <<"ru_d", "ru_e", "ru_r", "ru_zh">>})
       THEN "maintain"
       ELSE IF has({W_GAIN, <<"ru_m", "ru_a", "ru_s">>}) THEN "gain"
       ELSE IF has({W_RECOMP, <<"r", "e", "c", "o", "m", "p">>,
                    <<"ru_p", "ru_o", "ru_d", "ru_t", "ru_ya", "ru_n">>,
                    <<"ru_t", "ru_o", "ru_n", "ru_u", "ru_s">>})
       THEN "recomp"
       ELSE Null
\* _parse_tempo_choice: the key of the tempo; the marks of the buttons are
\* looked for in the text as it was sent
_parse_tempo_choice(text) ==
    LET t == _norm_text(text)
        has(ws) == \E w \in ws : Contains(t, w)
    IN IF has({<<"ru_zh", "ru_e", "ru_s", "ru_t">>, <<"ru_zh", "ru_yo", "ru_s", "ru_t">>,
               <<"ru_b", "ru_y", "ru_s", "ru_t", "ru_r">>}) \/ Contains(text, <<"[fire]">>)
       THEN "hard"
       ELSE IF has({<<"ru_s", "ru_t", "ru_a", "ru_n", "ru_d">>}) \/ Contains(text, <<"[check]">>)
       THEN "standard"
       ELSE IF has({<<"ru_m", "ru_ya", "ru_g">>}) \/ Contains(text, <<"[green]">>)
       THEN "soft"
       ELSE IF has({W_RECOMP}) \/ Contains(text, <<"[brick]">>) THEN "recomp"
       ELSE IF has({W_KEEP}) \/ Contains(text, <<"[scales]">>) THEN "maintain"
       ELSE IF has({W_GAIN}) \/ Contains(text, <<"[chart]">>) THEN "gain"
       ELSE Null

\* heights and weights are in tenths, as _parse_float gives them
_handle_onboarding_step(text) ==
    LET step == dialog_step
        data == get_dialog_data
        answers == data.answers
        again == {Res(Loaded, TRUE, "onboarding.reprompt", "reprompt")}
        advance(a) ==
            {Res(set_dialog("onboarding", step + 1,
                            [answers |-> a, awaiting_goal_tempo |-> FALSE]),
                 TRUE, "onboarding.next", "question")}
        age == _parse_int(text)
        h == _parse_float(text)
        tempo_key == _parse_tempo_choice(text)
        g == _map_goal(text)
    IN CASE step = 1 ->
              IF age = NoNum \/ ~(10 <= age /\ age <= 100) THEN again
              ELSE advance([answers EXCEPT !.age = age])
         [] step = 2 ->
              IF _map_sex(text) = Null THEN again
              ELSE advance([answers EXCEPT !.sex = _map_sex(text)])
         [] step = 3 ->
              IF h = NoNum \/ ~(1200 <= h /\ h <= 2300) THEN again
              ELSE advance([answers EXCEPT !.height_cm = h])
         [] step = 4 ->
              IF h = NoNum \/ ~(300 <= h /\ h <= 3000) THEN again
              ELSE advance([answers EXCEPT !.weight_kg = h])
         [] step = 5 ->
              IF _map_activity(text) = Null THEN again
              ELSE advance([answers EXCEPT !.activity_level = _map_activity(text)])
         [] step = 6 /\ data.awaiting_goal_tempo ->
              IF tempo_key = Null THEN again
              ELSE advance([answers EXCEPT
                     !.goal = IF tempo_key \in {"maintain", "gain", "recomp"} THEN tempo_key
                              ELSE IF @ \in {"loss", "recomp"} THEN @ ELSE "loss",
                     !.tempo_key = tempo_key])
         [] step = 6 ->
              IF g = Null THEN again
              ELSE {Res(set_dialog("onboarding", step,
                                   [answers |-> [answers EXCEPT !.goal = g],
                                    awaiting_goal_tempo |-> TRUE]),
                        TRUE, "onboarding.tempo", "tempo")}
         [] step \in 7..9 -> advance([answers EXCEPT !.notes = Append(@, Strip(text))])
         [] step = 10 ->
              {[Res(Idle, TRUE, "onboarding.done", "profile") EXCEPT !.profile_complete = TRUE]}
         [] OTHER -> {Raises("onboarding.past")}

\* whether the reply is one of the answers food_pick is specified to take: a
\* barcode of a product with complete macros, or a listed candidate's number
ValidAnswer(reply, cands) ==
    IF maybe_barcode[reply] # NoBarcode
    THEN /\ resolve_by_barcode(maybe_barcode[reply]) # None
         /\ HasMacros(resolve_by_barcode(maybe_barcode[reply]))
    ELSE isdigit[reply] /\ 1 <= parse_int[reply] /\ parse_int[reply] <= Len(cands)

_handle_food_pick(t) ==
    LET data == get_dialog_data
        unresolved == data.ctx.unresolved
        resolved == data.ctx.resolved
        idx == dialog_step
        bc == maybe_barcode[t]
        cands == unresolved[idx + 1].candidates
        chosen == IF bc # NoBarcode THEN resolve_by_barcode(bc)
                  ELSE IF isdigit[t] /\ 1 <= parse_int[t] /\ parse_int[t] <= Len(cands)
                  THEN cands[parse_int[t]] ELSE None
        cand == IF chosen.barcode # NoBarcode THEN resolve_by_barcode(chosen.barcode)
                ELSE None
        macros == compute_item_macros(unresolved[idx + 1].grams, cand)
        resolved2 == Append(resolved, macros)
        confirm == _start_meal_confirm(DraftOf(resolved2), data.source, data.photo_file_id)
        stay(h, reply) == Res(Loaded, TRUE, h, reply)
        r == IF t \in {CancelLiteral} \cup MenuEscapes
             THEN Res(Idle, TRUE, "food_pick.cancel", "cancelled")
             ELSE IF bc # NoBarcode /\ chosen = None
             THEN stay("food_pick.unknown_barcode", "retry")
             ELSE IF chosen = None THEN stay("food_pick.reprompt", "retry")
             ELSE IF cand = None THEN stay("food_pick.not_fixed", "retry")
             ELSE IF macros = None THEN stay("food_pick.no_macros", "retry")
             ELSE IF idx + 1 < Len(unresolved)
             THEN Res(set_dialog("food_pick", idx + 1,
                          [ctx |-> [unresolved |-> unresolved, resolved |-> resolved2],
                           source |-> data.source, photo_file_id |-> data.photo_file_id]),
                      TRUE, "food_pick.next", "pick")
             ELSE Res(confirm.user, TRUE, "food_pick.draft", confirm.reply)
    IN IF idx >= Len(unresolved) THEN Rest(t, Idle)
       ELSE {[r EXCEPT !.pick = IF t \in {CancelLiteral} \cup MenuEscapes THEN "none"
                                 ELSE IF ValidAnswer(t, cands) THEN "valid" ELSE "invalid"]}

\* the two clarification handlers: the answers go to the oracle and the model
\* keeps their number
\* photo_clarify that moves to the next question without looking for one
_handle_photo_clarify_unchecked(t0) ==
    LET data == get_dialog_data
        idx == dialog_step + 1
    IN IF t0 \in {CancelLiteral} \cup MenuEscapes
       THEN {Res(Idle, TRUE, "photo_clarify.cancel", "cancelled")}
       ELSE {Res(set_dialog("photo_clarify", idx, [data EXCEPT !.answers = @ + 1]), TRUE,
                 "photo_clarify.next", "question")}
_handle_photo_clarify(t0) ==
    LET data == get_dialog_data
        idx == dialog_step + 1
    IN IF t0 \in {CancelLiteral} \cup MenuEscapes
       THEN {Res(Idle, TRUE, "photo_clarify.cancel", "cancelled")}
       ELSE IF idx < data.questions
       THEN {Res(set_dialog("photo_clarify", idx, [data EXCEPT !.answers = @ + 1]), TRUE,
                 "photo_clarify.next", "question")}
       ELSE {Res(Idle, TRUE, "photo_clarify.error", "error")} \cup
            {Res(Builds[items, "photo", data.photo_file_id].user, TRUE, "photo_clarify.built",
                 Builds[items, "photo", data.photo_file_id].reply) : items \in ClarifiedLists}

_handle_meal_clarify(t0) ==
    LET data == get_dialog_data
        idx == dialog_step + 1
    IN IF t0 \in {CancelLiteral} \cup MenuEscapes
       THEN {Res(Idle, TRUE, "meal_clarify.cancel", "cancelled")}
       ELSE IF idx < data.questions
       THEN {Res(set_dialog("meal_clarify", idx, [data EXCEPT !.answers = @ + 1]), TRUE,
                 "meal_clarify.next", "question")}
       ELSE {Res(Idle, TRUE, "meal_clarify.error", "error")} \cup
            {Res(Builds[items, data.source, None].user, TRUE, "meal_clarify.built",
                 Builds[items, data.source, None].reply) : items \in RefusedLists}

_handle_meal_confirm(t) ==
    LET data == get_dialog_data
        text == norm_text[t]
    IN IF t \in {CancelLiteral} \cup MenuEscapes
       THEN {Res(Idle, TRUE, "meal_confirm.cancel", "cancelled")}
       ELSE IF text \in Affirmatives
       THEN IF Len(meals) >= MaxMeals THEN {}
            ELSE {[Res(Idle, TRUE, "meal_confirm.yes", "saved")
                     EXCEPT !.meals = Append(meals,
                        add_meal(data.source, data.draft, data.draft.totals,
                                 data.photo_file_id))]}
       ELSE IF text \in Negatives THEN {Res(Idle, TRUE, "meal_confirm.no", "discarded")}
       ELSE {[r EXCEPT !.abandoned = TRUE] : r \in Rest(t, Idle)}

_handle_apply_calories(t) ==
    IF t \in {CancelLiteral} \cup MenuEscapes
    THEN {Res(Idle, TRUE, "apply_calories.cancel", "cancelled")}
    ELSE IF norm_text[t] \in Affirmatives THEN {Res(Idle, TRUE, "apply_calories.yes", "applied")}
    ELSE IF norm_text[t] \in Negatives THEN {Res(Idle, TRUE, "apply_calories.no", "kept")}
    ELSE {Res(Loaded, TRUE, "apply_calories.reprompt", "prompt")}

(***************************************************************************)
(* The entry points.                                                       *)
(***************************************************************************)
\* "auto-timeout: if stuck too long, reset"
StaleAfter == 90

\* the results of any_text for message text t; the mode "onboarding" of
\* _handle_onboarding_step is set by _start_onboarding only, which nothing calls
any_text_results(t) ==
    IF dialog_state = "plan_generating"
    THEN IF now > StaleAfter THEN {Res(Idle, TRUE, "plan_generating.stale", "reset")}
         ELSE IF norm_text[t] \in {_norm_text(BTN_CANCEL), T_CANCEL_WORD}
                 \/ t \in {CancelLiteral, BTN_MENU}
         THEN {Res(Idle, TRUE, "plan_generating.cancel", "cancelled")}
         ELSE {Res(Loaded, FALSE, "plan_generating.wait", "wait")}
    ELSE IF dialog_state \in {"targets_mode", "targets_custom"} THEN _handle_targets_mode(t)
    ELSE IF dialog_state = "daily_checkin" THEN _handle_daily_checkin(t)
    ELSE IF dialog_state = "coach_onboarding" THEN _handle_coach_onboarding(t)
    ELSE IF dialog_state = "onboarding" /\ dialog_step \notin {NoStep, 0}
    THEN _handle_onboarding_step(t)
    ELSE IF dialog_state = "food_pick" THEN _handle_food_pick(t)
    ELSE IF dialog_state = "photo_clarify" THEN _handle_photo_clarify(t)
    ELSE IF dialog_state = "meal_clarify" THEN _handle_meal_clarify(t)
    ELSE IF dialog_state = "meal_confirm" THEN _handle_meal_confirm(t)
    ELSE IF dialog_state = "apply_calories" THEN _handle_apply_calories(t)
    ELSE Rest(t, Loaded)

\* a text message
any_text == \E text \in Texts : \E r \in any_text_results(Stripped[text]) : Apply(r, Stripped[text])

\* the commands and the media handlers leave through Done
Done(r) == Apply(r, <<>>)

\* /start
cmd_start ==
    Done(IF profile_complete THEN Res(Loaded, FALSE, "start.known", "info")
         ELSE Res(set_dialog("coach_onboarding", 1, [profile |-> "empty", prefs |-> "empty"]),
                  TRUE, "start.onboarding", "prompt"))

\* /reset: the rows of the user are deleted, the preferences emptied
cmd_reset ==
    /\ Awaiting
    /\ Flush(Loaded, Idle)
    /\ meals' = <<>>
    /\ plans' = {}
    /\ profile_complete' = FALSE
    /\ out' = Seen("reset", "info", FALSE, TRUE, FALSE, "none", FALSE)
    /\ gen' = Meanwhile
    /\ Clock
    /\ UNCHANGED beside_bot

\* /plan and /plan N
cmd_plan ==
    \E arg \in {NoNum, MaxDays} :
      LET days_prefill == IF arg = NoNum THEN NoNum ELSE Clamp(arg, 1, 7)
      IN Done(IF ~profile_complete THEN Res(Loaded, FALSE, "plan.noprofile", "needprofile")
              ELSE Res(set_dialog("plan_when", 0,
                           IF days_prefill # NoNum THEN [days_prefill |-> days_prefill]
                           ELSE None),
                       TRUE, "plan.when", "when"))

\* /week
cmd_week == \E r \in cmd_week_results : Done(r)

\* a photo without the caption "progress"; analysis is the number of the
\* questions of the vision oracle, NoNum its failure
photo_message ==
    \E analysis \in {NoNum} \cup 0..MaxQuestions :
      Done(IF ~profile_complete THEN Res(Loaded, FALSE, "photo.noprofile", "needprofile")
           ELSE IF dialog_state = "progress_mode"
           THEN Res(Loaded, TRUE, "photo.progress", "saved")
           ELSE IF analysis = NoNum THEN Res(Loaded, FALSE, "photo.error", "error")
           ELSE Res(set_dialog("photo_clarify", 0,
                        [photo_file_id |-> PhotoId, analysis |-> "analysis",
                         questions |-> analysis, answers |-> 0]),
                    TRUE, "photo.clarify", "question"))

\* a voice message; Raise is any of the failures of the download, the
\* conversion, the transcription and the parse: each ends with a reply and
\* without a commit
voice_message ==
    \E p \in {Parsed(FALSE, 0, items) : items \in RefusedLists} \cup {Raise} :
      Done(IF ~profile_complete THEN Res(Loaded, FALSE, "voice.noprofile", "needprofile")
           ELSE IF p = Raise THEN Res(Loaded, FALSE, "voice.error", "error")
           ELSE IF p.needs_clarification /\ p.clarifying_questions > 0
           THEN Res(set_dialog("meal_clarify", 0,
                        [draft |-> p, questions |-> p.clarifying_questions, answers |-> 0,
                         source |-> "voice"]), TRUE, "voice.clarify", "question")
           ELSE Res(Builds[p.items, "voice", None].user, TRUE, "voice.built",
                    Builds[p.items, "voice", None].reply))

\* "persist plans": one upsert per day of the request
RECURSIVE PersistPlans(_, _, _)
PersistPlans(rows, g, day_plans) ==
    IF day_plans = <<>> THEN rows
    ELSE LET i == Len(day_plans)
         IN upsert_day_plan(PersistPlans(rows, g, SubSeq(day_plans, 1, i - 1)),
                            g.start_date + i - 1, ActiveKcal(g.start_date + i - 1),
                            day_plans[i])

\* "persist plans" for the days that were generated, whatever the day that
\* raised
PersistedSoFar(rows, g, res) == PersistPlans(rows, g, res.day_plans)

\* the rows after _generate_plan_for_days: "persist plans" is reached when no
\* day has raised
Persisted(rows, g, res) == IF res.ok THEN PersistPlans(rows, g, res.day_plans) ELSE rows

\* _generate_plan_for_days, from the answers of the oracle to its end
GenFinish ==
    \E i \in 1..Len(gen) :
      \E res \in GenResults(gen[i].start_date, gen[i].days, gen[i].store_only) :
        LET g == gen[i]
            edit == set_dialog("plan_edit", 0,
                        [start_date |-> isoformat(g.start_date), days |-> g.days,
                         store_only |-> g.store_only])
        IN /\ Flush(g.user, edit)
           /\ plans' = Persisted(plans, g, res)
           /\ gen' = SubSeq(gen, 1, i - 1) \o SubSeq(gen, i + 1, Len(gen))
           /\ out' = Seen(IF res.ok THEN "generate.done"
                           ELSE IF res.failed_day = 1 THEN "generate.failed_first"
                           ELSE "generate.failed_later",
                           IF res.ok THEN "plans" ELSE "retry", FALSE, TRUE, FALSE, "none",
                           FALSE)
           /\ UNCHANGED <<meals, profile_complete, beside_bot>>
           /\ Clock

\* time passes while a generation is announced
TickSeconds == 45
Tick ==
    /\ dialog_state = "plan_generating"
    /\ now <= StaleAfter
    /\ now' = now + TickSeconds
    /\ UNCHANGED <<dialog_state, dialog_step, dialog_data, profile_complete, meals, plans,
                   gen, out, beside_bot>>

Next ==
    \/ any_text
    \/ cmd_start
    \/ cmd_reset
    \/ cmd_plan
    \/ cmd_week
    \/ photo_message
    \/ voice_message
    \/ GenFinish
    \/ Tick
Spec == Init /\ [][Next]_vars

(***************************************************************************)
(* The tier loop on its own: one day of a generation or of an edit, pass   *)
(* by pass, for every target of the week and every store of the keyboard.  *)
(***************************************************************************)
InitTiers ==
    /\ Created
    /\ tier \in {TierOf(ActiveKcal(d), store_only) : d \in 0..6, store_only \in Stores}
    /\ CreatedRows
    /\ CreatedWeight
    /\ CreatedSched
    /\ CreatedTrial
    /\ CreatedMealRun
    /\ CreatedFailure
    /\ CreatedAttempt
    /\ CreatedClientRun
    /\ CreatedFoodRun
    /\ CreatedCalc
    /\ CreatedDailyRun
    /\ CreatedScanRun

\* one pass of "for m in models_to_try"
TierCall ==
    /\ ~TierLeft(tier.loop)
    /\ \E o \in PlanOutcomes :
         tier' = [tier EXCEPT !.loop = TierPass(@, o, tier.kcal_target, tier.store_only)]
    /\ UNCHANGED beside_tier

\* the two raise statements after the loop, else "plan = last_plan"
TierEnd ==
    /\ TierLeft(tier.loop)
    /\ tier.end = "running"
    /\ tier' = [tier EXCEPT !.end = IF DayAccepts(tier.loop, tier.kcal_target)
                                    THEN "accepted" ELSE "raised"]
    /\ UNCHANGED beside_tier

NextTiers ==
    \/ TierCall
    \/ TierEnd
SpecTiers == InitTiers /\ [][NextTiers]_vars

(***************************************************************************)
(* The claims.                                                             *)
(***************************************************************************)

\* C1: in every reachable persisted state dialog_state, dialog_step and
\* dialog_data_json are all null or all non-null.
C1_AllOrNone ==
    /\ (dialog_state = Null) = (dialog_step = NoStep)
    /\ (dialog_step = NoStep) = (dialog_data = None)

\* the interactive modes C2 lists
InteractiveModes ==
    {"targets_mode", "targets_custom", "daily_checkin", "onboarding", "coach_onboarding",
     "food_pick", "photo_clarify", "meal_clarify", "meal_confirm", "apply_calories",
     "plan_when", "plan_date", "plan_store", "plan_days", "plan_edit", "reminders_setup",
     "progress_mode", "set_weight"}

\* C2: the cancel token sent in an interactive mode always leaves the user
\* idle, with mode, step and payload cleared.
C2_CancelClears ==
    (out.cancel /\ out.mode \in InteractiveModes) =>
        (dialog_state = Null /\ dialog_step = NoStep /\ dialog_data = None)

\* C3: a reply in meal_confirm that is neither an affirmative, a negative nor
\* a cancel token creates no Meal, and when its handling ends the persisted
\* mode is no longer the meal_confirm of the draft it abandoned.
C3_AbandonedConfirmation ==
    [][(dialog_state = "meal_confirm" /\ out'.abandoned) =>
          /\ meals' = meals
          /\ dialog_state' # "meal_confirm" \/ out'.commit]_vars

\* C4: in food_pick every valid answer (a barcode of a product with complete
\* macros, or a candidate number within range) takes the flow one item
\* further or ends it, and an invalid answer leaves it where it is.
C4_ValidAnswersCount ==
    [][dialog_state = "food_pick" =>
          /\ out'.pick = "valid" =>
                \/ dialog_state' = "food_pick" /\ dialog_step' = dialog_step + 1
                \/ dialog_state' # "food_pick"
          /\ out'.pick = "invalid" =>
                /\ dialog_state' = "food_pick"
                /\ dialog_step' = dialog_step
                /\ dialog_data' = dialog_data]_vars

\* C5: the persisted mode is meal_confirm only with a draft that has items and
\* a total weight above zero; a draft without is answered by the failure
\* message and leaves the user idle.
C5_NoEmptyConfirmation ==
    /\ dialog_state = "meal_confirm" =>
          /\ loads(dialog_data).draft.items # <<>>
          /\ loads(dialog_data).draft.totals.total_weight_g > 0
    /\ out.reply = "unrecognised" =>
          dialog_state = Null /\ dialog_step = NoStep /\ dialog_data = None

\* a draft has been refused
C5_Refused ==
    /\ out.reply = "unrecognised"
    /\ dialog_state = Null

\* C6: the Meal rows change only by the affirmative reply in meal_confirm,
\* which adds one row made of the draft of the payload and leaves the rows
\* before it as they were, or by /reset, which deletes them.
C6_MealsByConfirmationOnly ==
    [][meals' # meals =>
          \/ meals' = <<>>
          \/ /\ dialog_state = "meal_confirm"
             /\ out'.h = "meal_confirm.yes"
             /\ Len(meals') = Len(meals) + 1
             /\ SubSeq(meals', 1, Len(meals)) = meals
             /\ LET data == loads(dialog_data)
                    row == meals'[Len(meals')]
                IN /\ row.source = data.source
                   /\ row.meal_json = dumps(data.draft)
                   /\ row.photo_file_id = data.photo_file_id
                   /\ row.calories = data.draft.totals.calories
                   /\ row.protein_g = data.draft.totals.protein_g
                   /\ row.fat_g = data.draft.totals.fat_g
                   /\ row.carbs_g = data.draft.totals.carbs_g
                   /\ row.total_weight_g = data.draft.totals.total_weight_g]_vars

\* a Meal has been created from a confirmed draft
C6_Saved ==
    /\ out.h = "meal_confirm.yes"
    /\ Len(meals) = 1
    /\ dialog_state = Null

\* the quality gate as C7 states it
GateOf(plan, target_kcal) ==
    /\ \A i \in 1..Len(plan.meals) :
          \A j \in 1..Len(plan.meals[i].products) :
             LET p == plan.meals[i].products[j]
             IN /\ p.name # <<>>
                /\ p.grams > 0
                /\ \A b \in 1..Len(banned) : ~Contains(LowerText(p.name), banned[b])
    /\ 100 * Abs(plan.totals.kcal - target_kcal) <= 7 * target_kcal

\* C7: every persisted day plan, generated or edited, satisfies the quality
\* gate for the target of its day.
C7_PersistedPlansPassGate ==
    \A r \in plans : GateOf(loads(r.plan_json), ActiveKcal(r.date))

\* an edit has replaced a persisted plan
C7_Patched ==
    /\ out.h = "plan_edit.patched"
    /\ plans # {}

\* C8: a generation request one of whose days fails with every tier sends the
\* retry message and leaves the Plan rows as they were, the days generated
\* before the failing day included.
C8_FailedRequestPersistsNothing ==
    [][(Len(gen') < Len(gen) /\ out'.h # "generate.done") =>
          /\ out'.h \in {"generate.failed_first", "generate.failed_later"}
          /\ out'.reply = "retry"
          /\ plans' = plans]_vars

\* the second day of a request has failed and there is no Plan row
C8_FailedLater ==
    /\ out.h = "generate.failed_later"
    /\ plans = {}

\* whether a call of a tier ended by an exception, a non-object or a plan that
\* fails the quality gate
Rejected(c) ==
    \/ c.outcome.kind # "plan"
    \/ ~_plan_quality_ok(_normalize_day_plan(c.outcome.plan, tier.store_only),
                         tier.kcal_target)

\* C9: the tiers are called in the order of the list, fast tier first; a tier
\* is called after another only when that one was rejected, and always when it
\* was; the accepted plan is the output of the last tier called, which was not
\* rejected; the day fails when every tier was rejected.
C9_TiersInOrder ==
    LET calls == tier.loop.calls
        n == Len(calls)
    IN /\ n <= Len(models_to_try)
       /\ \A i \in 1..n : calls[i].model = models_to_try[i]
       /\ n >= 1 => calls[1].model = openai_plan_model_fast
       /\ \A i \in 1..(n - 1) : Rejected(calls[i])
       /\ tier.end # "running" =>
             /\ n >= 1
             /\ n < Len(models_to_try) => ~Rejected(calls[n])
             /\ tier.end = "accepted" =>
                   /\ ~Rejected(calls[n])
                   /\ tier.loop.last_plan =
                        _normalize_day_plan(calls[n].outcome.plan, tier.store_only)
             /\ tier.end = "raised" <=> \A i \in 1..n : Rejected(calls[i])

\* the fast tier has answered with the whey plan, the next tier was called and
\* the day has failed
C9_WheyRejected ==
    /\ Len(tier.loop.calls) = 2
    /\ tier.loop.calls[1].outcome.kind = "plan"
    /\ tier.loop.calls[1].outcome.plan = RP_WHEY
    /\ tier.end = "raised"

\* C10: a failure of a plan generation or of a plan edit ends with the retry
\* message, not with an uncaught exception, and with the persisted mode
\* plan_edit and its payload.
C10_FailureOffersRetry ==
    out.h \in {"generate.failed_first", "generate.failed_later", "plan_edit.failed"} =>
        /\ ~out.raised
        /\ out.reply = "retry"
        /\ dialog_state = "plan_edit"
        /\ dialog_data # None
\* an update is handled: the steps that are neither the end of a generation
\* nor the passing of time
Inbound == Len(gen') >= Len(gen) /\ now' <= now
Stale == dialog_state = "plan_generating" /\ now > StaleAfter

\* C11: when the mode is plan_generating and more than 90 seconds have passed
\* since its start, the next inbound message of any kind resets the dialog
\* to idle, commits, tells the user about the reset, and nothing else
\* handles it.
C11_StaleResets ==
    [][(Stale /\ Inbound) =>
          /\ dialog_state' = Null /\ dialog_step' = NoStep /\ dialog_data' = None
          /\ out'.commit /\ out'.reply = "reset"
          /\ UNCHANGED <<meals, plans, profile_complete>> /\ gen' = Meanwhile]_vars

Fresh == dialog_state = "plan_generating" /\ now <= StaleAfter

\* C12: while the mode is plan_generating and the 90 seconds have not
\* passed, an inbound message either gets the "please wait" reply alone, the
\* dialog state, the plans, the meals and the profile staying as they are,
\* or, being a cancel token, resets the dialog to idle; the cancel literal
\* always resets.
C12_OnlyWaitOrCancel ==
    [][(Fresh /\ Inbound) =>
          \/ /\ out'.reply = "wait" /\ ~out'.cancel
             /\ UNCHANGED <<dialog_state, dialog_step, dialog_data, meals, plans,
                            profile_complete>>
             /\ gen' = Meanwhile
          \/ /\ dialog_state' = Null /\ dialog_step' = NoStep /\ dialog_data' = None
             /\ out'.commit
             /\ UNCHANGED <<meals, plans, profile_complete>> /\ gen' = Meanwhile]_vars

\* C26: a plan edit that succeeds replaces the Plan row of the date
\* start_date + (N - 1) and of no other date, N being 1 unless the text holds
\* a day number, which is then brought into 1..days; an edit that fails leaves
\* every Plan row as it was.
C26_EditsOneDate ==
    [][Inbound =>
        /\ out'.h = "plan_edit.patched" =>
              LET data == loads(dialog_data)
                  days == data.days
                  said == DayNumber(_norm_text(out'.text))
                  N == IF said = NoNum THEN 1
                       ELSE IF said < 1 THEN 1 ELSE IF said > days THEN days ELSE said
                  d == fromisoformat(data.start_date) + (N - 1)
              IN /\ \A r \in plans \cup plans' : r.date # d => (r \in plans /\ r \in plans')
                 /\ \E r \in plans' : r.date = d
                 /\ (out'.text = T_DAY_TWO /\ days = 2) => N = 2
                 /\ (out'.text = T_DAY_TWO /\ days = 1) => N = 1
                 /\ out'.text = T_MEAL => N = 1
        /\ out'.h \in {"plan_edit.failed", "plan_edit.memory"} => plans' = plans]_vars
\* the second day of a two-day plan has been edited
C26_SecondDayEdited ==
    /\ out.h = "plan_edit.patched"
    /\ out.text = T_DAY_TWO
    /\ dialog_state = "plan_edit"
    /\ loads(dialog_data).days = 2
    /\ \E r \in plans : r.date = fromisoformat(loads(dialog_data).start_date) + 1

\* C19: while the mode is non-null, no entry point other than the flow
\* handler of that mode (a command, a photo, a voice message) changes the
\* dialog state of the flow in progress.
C19_FlowOwnsDialog ==
    [][(Inbound /\ dialog_state # Null /\ out'.h \in EntryTags) =>
          UNCHANGED <<dialog_state, dialog_step, dialog_data>>]_vars

\* C21: in no active mode is the text of the menu or help button taken as an
\* answer of the flow: it is never handed to the oracle of the flow as the
\* user's answer, and so never advances the step or is stored.
C21_EscapesNotSwallowed ==
    [][(Inbound /\ dialog_state # Null) => ~out'.swallowed]_vars

\* C22: the handler of an inbound message never ends by an uncaught
\* exception, whatever its oracles do: it replies to the user and returns.
C22_OracleFailuresCaught ==
    [][Inbound => (~out'.raised /\ out'.reply # "none")]_vars

\* C23: a message that reaches the router is processed by the handler of the
\* action tag the classifier returned; a message tagged "log_meal" goes to
\* the meal pipeline, never to the coach chat.
C23_RoutedByTag ==
    [][Inbound => out'.route # "elsewhere"]_vars

(***************************************************************************)
(* The table plans under concurrent sessions.  The dispatcher handles the  *)
(* updates of a user as concurrent tasks, each with a session of its own;  *)
(* PlanRepo.upsert_day_plan awaits its SELECT and, for a new row, its      *)
(* flush, and the handler commits after its last upsert.  A session reads  *)
(* the committed rows and what it has written itself.  The table has no    *)
(* unique index on (user_id, date).                                        *)
(***************************************************************************)
MaxUpserts == 2
PlanDates == today_local..(today_local + MaxDays - 1)
PlanOps == {"generate", "edit", "approve"}

\* the dates of a request of `days` days from start
DatesFrom(start, days) == [i \in 1..days |-> start + i - 1]

\* the rows session w reads
Visible(w) ==
    {r \in plan_rows : \A c \in writers[w].changed : c.id # r.id}
        \cup writers[w].changed \cup writers[w].added
\* "select(Plan).where(user_id).where(date)"
Matching(w, date) == {r \in Visible(w) : r.date = date}

\* the session of w after the handler has returned or raised
Closed(w) == [Ready EXCEPT !.done = writers[w].done + 1]
\* the next await of w after the upsert of a date
NextDate(wr) ==
    [wr EXCEPT !.todo = Tail(@), !.found = NoRow,
               !.pc = IF Tail(wr.todo) = <<>> THEN "commit"
                      ELSE IF wr.op = "approve" THEN "get" ELSE "select"]

\* a handler that persists plans starts: "persist plans" of a generation,
\* the patch of one day, or the Approve button
Begin(w) ==
    /\ writers[w].pc = "idle"
    /\ writers[w].done < MaxUpserts
    /\ \E op \in PlanOps, start \in PlanDates, days \in 1..MaxDays :
         /\ start + days - 1 \in PlanDates
         /\ op = "edit" => days = 1
         /\ writers' = [writers EXCEPT ![w] =
                           [@ EXCEPT !.op = op, !.todo = DatesFrom(start, days),
                                     !.pc = IF op = "approve" THEN "get" ELSE "select"]]
    /\ UNCHANGED <<plan_rows, beside_rows>>

\* PlanRepo.get_day_plan_json of the Approve loop: scalar_one_or_none raises
\* on two rows, a date without a row is skipped
GetPlan(w) ==
    /\ writers[w].pc = "get"
    /\ LET m == Matching(w, Head(writers[w].todo))
       IN writers' = [writers EXCEPT ![w] =
              IF Cardinality(m) > 1 THEN Closed(w)
              ELSE IF m = {} THEN NextDate(@)
              ELSE [@ EXCEPT !.pc = "select", !.found = CHOOSE r \in m : TRUE]]
    /\ UNCHANGED <<plan_rows, beside_rows>>

\* the SELECT of upsert_day_plan
SelectPlan(w) ==
    /\ writers[w].pc = "select"
    /\ LET m == Matching(w, Head(writers[w].todo))
           wr == writers[w]
           plan == IF wr.op = "approve" THEN [by |-> wr.found.by, approved |-> TRUE]
                   ELSE [by |-> w, approved |-> FALSE]
       IN writers' = [writers EXCEPT ![w] =
              IF Cardinality(m) > 1 THEN Closed(w)
              ELSE [@ EXCEPT !.pc = "write",
                             !.found = [row |-> IF m = {} THEN NoRow ELSE CHOOSE r \in m : TRUE,
                                        plan |-> plan]]]
    /\ UNCHANGED <<plan_rows, beside_rows>>

\* the rest of upsert_day_plan: the row found is changed in place, else a
\* row is added
WritePlan(w) ==
    /\ writers[w].pc = "write"
    /\ LET wr == writers[w]
           date == Head(wr.todo)
           p == wr.found.plan
           old == wr.found.row
           new == [id |-> IF old = NoRow THEN <<w, wr.done, Len(wr.todo)>> ELSE old.id,
                   date |-> date, by |-> p.by, approved |-> p.approved]
       IN writers' = [writers EXCEPT ![w] =
              NextDate(IF old = NoRow THEN [wr EXCEPT !.added = @ \cup {new}]
                       ELSE IF old \in wr.added
                       THEN [wr EXCEPT !.added = (@ \ {old}) \cup {new}]
                       ELSE [wr EXCEPT !.changed = {c \in @ : c.id # old.id} \cup {new}])]
    /\ UNCHANGED <<plan_rows, beside_rows>>

\* db.commit()
CommitPlans(w) ==
    /\ writers[w].pc = "commit"
    /\ plan_rows' = Visible(w)
    /\ writers' = [writers EXCEPT ![w] = Closed(w)]
    /\ UNCHANGED beside_rows

NextPlanRows ==
    \E w \in Writers :
      \/ Begin(w)
      \/ GetPlan(w)
      \/ SelectPlan(w)
      \/ WritePlan(w)
      \/ CommitPlans(w)
SpecPlanRows == Init /\ [][NextPlanRows]_vars

\* C13: there is at most one Plan row for a date of the user, whatever the
\* order and the interleaving of the generations, edits and approvals.
C13_OneRowPerDate ==
    \A d \in PlanDates : Cardinality({r \in plan_rows : r.date = d}) <= 1

(***************************************************************************)
(* Weight and targets.  After the onboarding the user chooses the targets  *)
(* of the coach or sets own ones; later the targets change through the     *)
(* memory extractor and the weight through /weight, the set_weight dialog  *)
(* and the update_weight intent.  Each handler is one transaction.         *)
(***************************************************************************)
MaxElapsedDays == 1
Weights == {80, 90}
\* patch["targets"] of the memory extractor
TP_2800 == [calories |-> 2800]
TP_SPLIT == [calories_weekdays |-> 2800, calories_weekends |-> 2700]
TP_WEEKEND == [calories |-> 2800, calories_weekends |-> 3000]
TP_FULL == [calories |-> 2800, protein_g |-> 210, fat_g |-> 80, carbs_g |-> 300]
TargetPatches == {TP_2800, TP_SPLIT, TP_WEEKEND, TP_FULL}
WeightPaths == {"cmd_weight", "set_weight", "update_weight"}

Has(d, k) == k \in DOMAIN d
\* "_k" of _active_targets, and kcal_today of _handle_targets_mode
ActiveKcalOf(targ, user, date_local) ==
    IF Weekday(date_local) < 5 /\ Has(targ, "calories_weekdays") THEN targ.calories_weekdays
    ELSE IF Weekday(date_local) >= 5 /\ Has(targ, "calories_weekends")
    THEN targ.calories_weekends
    ELSE IF Has(targ, "calories") THEN targ.calories
    ELSE user.calories_target
\* _active_targets: the user has macros, so none is computed
_active_targets(p, user, date_local) ==
    LET targ == p.targets
    IN [kcal |-> ActiveKcalOf(targ, user, date_local),
        protein_g |-> IF Has(targ, "protein_g") THEN targ.protein_g ELSE user.protein_g_target,
        fat_g |-> IF Has(targ, "fat_g") THEN targ.fat_g ELSE user.fat_g_target,
        carbs_g |-> IF Has(targ, "carbs_g") THEN targ.carbs_g ELSE user.carbs_g_target]

\* the user snapshot takes the targets t
WithTargets(user, t) ==
    [user EXCEPT !.calories_target = t.calories, !.protein_g_target = t.protein_g,
                 !.fat_g_target = t.fat_g, !.carbs_g_target = t.carbs_g]

\* the weight update of cmd_weight, of the set_weight dialog and of the
\* update_weight intent, whatever the source of the targets
weight_update_recomputed(user, p, w, date_local) ==
    LET c == compute_targets_with_meta(w, p.deficit_pct)
    IN [user |-> WithTargets([user EXCEPT !.weight_kg = w], c.t),
        prefs |-> merge(merge(p, [targets_source |-> "coach", targets |-> c.t]), c.meta)]

\* the weight update of cmd_weight, of the set_weight dialog and of the
\* update_weight intent: the user and the preferences they leave
weight_update(user, p, w, date_local) ==
    LET u1 == [user EXCEPT !.weight_kg = w]
        c == compute_targets_with_meta(w, p.deficit_pct)
        active == _active_targets(p, u1, date_local)
    IN IF p.targets_source # "custom"
       THEN [user |-> WithTargets(u1, c.t),
             prefs |-> merge(merge(p, [targets_source |-> "coach", targets |-> c.t]), c.meta)]
       ELSE [user |-> [u1 EXCEPT !.calories_target = active.kcal,
                                 !.protein_g_target = active.protein_g,
                                 !.fat_g_target = active.fat_g,
                                 !.carbs_g_target = active.carbs_g],
             prefs |-> merge(p, c.meta)]

\* the targets part of _apply_coach_memory_if_needed
memory_targets(user, p, targ) ==
    [user |-> [user EXCEPT
                 !.calories_target = IF Has(targ, "calories") THEN targ.calories ELSE @,
                 !.protein_g_target = IF Has(targ, "protein_g") THEN targ.protein_g ELSE @,
                 !.fat_g_target = IF Has(targ, "fat_g") THEN targ.fat_g ELSE @,
                 !.carbs_g_target = IF Has(targ, "carbs_g") THEN targ.carbs_g ELSE @],
     prefs |-> merge(p, [targets |-> targ])]

\* _handle_targets_mode in mode targets_custom, the extractor having found
\* the targets targ in the text
targets_custom(user, p, targ, date_local) ==
    LET m == memory_targets(user, p, targ)
        p1 == merge(m.prefs, [targets_source |-> "custom"])
        kcal_today == ActiveKcalOf(p1.targets, m.user, date_local)
        missing_macros == ~(Has(targ, "protein_g") /\ Has(targ, "fat_g") /\ Has(targ, "carbs_g"))
        mt == macros_for_targets(kcal_today, m.user.weight_kg)
        macros == [protein_g |-> mt.protein_g, fat_g |-> mt.fat_g, carbs_g |-> mt.carbs_g]
    IN IF missing_macros
       THEN [user |-> [WithTargets(m.user, mt) EXCEPT !.dialog_state = Null],
             prefs |-> merge(p1, [targets |-> merge(p1.targets, macros)])]
       ELSE [user |-> [m.user EXCEPT !.dialog_state = Null], prefs |-> p1]

Did(op, path) == [op |-> op, path |-> path]
\* the handler commits the user and the preferences of r
Commit(r, op, path) ==
    /\ account' = r.user
    /\ prefs' = r.prefs
    /\ did' = Did(op, path)
    /\ UNCHANGED <<wall, beside_weight>>

\* the buttons of mode targets_mode
TargetsAuto ==
    /\ account.dialog_state = "targets_mode"
    /\ Commit([user |-> [account EXCEPT !.dialog_state = Null],
               prefs |-> merge(prefs, [targets_source |-> "coach"])], "targets_auto", "none")
TargetsCustom ==
    /\ account.dialog_state = "targets_mode"
    /\ Commit([user |-> [account EXCEPT !.dialog_state = "targets_custom"], prefs |-> prefs],
              "targets_custom_prompt", "none")
\* a text in mode targets_custom
TargetsText ==
    /\ account.dialog_state = "targets_custom"
    /\ \E targ \in TargetPatches :
         Commit(targets_custom(account, prefs, targ, wall), "targets_custom", "none")
\* a text with new targets for the memory extractor, outside the dialogs
MemoryText ==
    /\ account.dialog_state = Null
    /\ \E targ \in TargetPatches :
         Commit(memory_targets(account, prefs, targ), "memory", "none")
\* /weight in any mode; the weight button and the intent when no dialog is on
WeightUpdate ==
    \E path \in WeightPaths, w \in Weights :
      /\ path # "cmd_weight" => account.dialog_state = Null
      /\ Commit(weight_update(account, prefs, w, wall), "weight", path)
\* midnight
NextDay ==
    /\ wall < today_local + MaxElapsedDays
    /\ wall' = wall + 1
    /\ did' = Did("midnight", "none")
    /\ UNCHANGED <<account, prefs, beside_weight>>

NextWeight ==
    \/ TargetsAuto
    \/ TargetsCustom
    \/ TargetsText
    \/ MemoryText
    \/ WeightUpdate
    \/ NextDay
SpecWeight == Init /\ [][NextWeight]_vars

\* the preferences hold custom targets with calories = 2800
Custom2800 ==
    /\ prefs.targets_source = "custom"
    /\ Has(prefs.targets, "calories")
    /\ prefs.targets.calories = 2800
MetaKeys == {"bmr_kcal", "tdee_kcal", "deficit_pct"}

\* C14 as stated: with custom targets of 2800 kcal in the preferences and in
\* the user row, a weight update through any path leaves calories_target at
\* 2800 and preferences.targets as it was.
C14_CustomKept ==
    [][(did'.op = "weight" /\ Custom2800 /\ account.calories_target = 2800) =>
          /\ account'.calories_target = 2800
          /\ prefs'.targets = prefs.targets]_vars

\* C14, amended: with custom targets of 2800 kcal, a weight update through
\* any path leaves preferences.targets and targets_source as they were,
\* changes no key of the preferences but the BMR, TDEE and deficit metadata,
\* and sets calories_target to the custom calories of the local day: the
\* weekday or weekend value when the targets hold one for today, else 2800.
C14_CustomMirrorsActive ==
    [][(did'.op = "weight" /\ Custom2800) =>
          LET targ == prefs.targets
              day_key == IF Weekday(wall) < 5 THEN "calories_weekdays"
                         ELSE "calories_weekends"
          IN /\ prefs'.targets = targ
             /\ prefs'.targets_source = "custom"
             /\ DOMAIN prefs' = DOMAIN prefs
             /\ \A k \in DOMAIN prefs \ MetaKeys : prefs'[k] = prefs[k]
             /\ account'.calories_target = IF Has(targ, day_key) THEN targ[day_key] ELSE 2800
             /\ prefs'.bmr_kcal = bmr_mifflin_st_jeor(account'.weight_kg)]_vars
\* a weight update has changed the weight and the metadata under custom
\* targets of 2800 kcal
C14_KeptAcrossWeights ==
    /\ did.op = "weight"
    /\ Custom2800
    /\ account.calories_target = 2800
    /\ account.weight_kg # Profile.weight_kg
    /\ prefs.bmr_kcal = bmr_mifflin_st_jeor(account.weight_kg)

\* ---------------------------------------------------------------------------
\* The scheduler: _checkin_loop scans every user once a minute, in one session
\* per scan, while message handlers change the same preferences documents.
\* A time "HH:MM" that matched \d{2}:\d{2} is kept as its two numbers,
\* int(tstr[:2]) and int(tstr[3:5]).
\* ---------------------------------------------------------------------------
MaxChats == 2
MaxScanDays == 1
T0600 == [hh |-> 6, mm |-> 0]
T0601 == [hh |-> 6, mm |-> 1]
\* what the memory extractor makes of a message: the patch of the preferences
P_WEIGHT == [weight_prompt_enabled |-> TRUE, weight_prompt_time |-> T0600]
P_REMS ==
    [reminders |-> <<[time |-> T0600, days |-> "all", text |-> "vitamins"],
                     [time |-> T0601, days |-> "all", text |-> "water"]>>]
P_CHECKIN == [checkin_every_days |-> 1]
P_NOTES == [notes |-> "no dairy"]
MemoryPatches == {P_WEIGHT, P_REMS, P_CHECKIN, P_NOTES}

Minutes(t) == (t.date * 1440) + (t.hh * 60) + t.mm
\* the weekday filter of a trigger
DayAllowed(days, date_local) ==
    /\ ~(days = "weekdays" /\ Weekday(date_local) >= 5)
    /\ ~(days = "weekends" /\ Weekday(date_local) < 5)
\* now_local.hour == hh and mm <= now_local.minute <= mm + 2
InWindow(hh, mm, now_local) ==
    now_local.hh = hh /\ mm <= now_local.mm /\ now_local.mm <= mm + 2
rid(idx) == IF idx = 0 THEN "r0" ELSE "r1"
Get(d, k, default) == IF Has(d, k) THEN d[k] ELSE default

\* the check-in request is due: no request yet, or "every" days have passed
CheckinDue(p, now_utc) ==
    /\ Get(p, "checkin_every_days", 0) > 0
    /\ ~ /\ Has(p, "last_checkin_request_utc")
         /\ Minutes(now_utc) - Minutes(p.last_checkin_request_utc)
                < p.checkin_every_days * 1440
\* the weight prompt is due
WeightDue(p, now_local) ==
    /\ Get(p, "weight_prompt_enabled", FALSE) = TRUE
    /\ LET tstr == Get(p, "weight_prompt_time", T0600)
       IN /\ DayAllowed(Get(p, "weight_prompt_days", "all"), now_local.date)
          /\ InWindow(tstr.hh, tstr.mm, now_local)
          /\ Get(p, "last_weight_prompt_date", NoDate) # now_local.date
\* the reminder idx is due
ReminderDue(p, idx, now_local) ==
    LET r == p.reminders[idx + 1]
        last_sent == Get(p, "reminders_last_sent", <<>>)
    IN /\ DayAllowed(r.days, now_local.date)
       /\ InWindow(r.time.hh, r.time.mm, now_local)
       /\ Get(last_sent, rid(idx), NoDate) # now_local.date

Record(u, x, date) ==
    [sent EXCEPT ![u][x] = IF @.date = date THEN [date |-> date, times |-> Min(@.times + 1, 2)]
                           ELSE [date |-> date, times |-> 1]]
\* bot.send_message returns or raises
Outcomes == {"ok", "raise"}
Evaluated(x) == sched.evaluated \cup {<<sched.u, x>>}

\* while True: a new session, the users, now_utc
ScanStart ==
    /\ sched.pc = "wake"
    /\ sched' = [Asleep EXCEPT !.pc = "load", !.u = 1, !.now = clock]
    /\ UNCHANGED <<prefs_db, clock, chat, sent>>
\* prefs = await pref_repo.get_json(u.id): the document enters the session
LoadPrefs ==
    /\ sched.pc = "load"
    /\ sched' = [sched EXCEPT !.pc = "checkin", !.prefs = prefs_db[sched.u],
                              !.doc = prefs_db[sched.u], !.idx = 0,
                              !.updated_last = None]
    /\ UNCHANGED <<prefs_db, clock, chat, sent>>
\* a send whose marker is written whether it returned or raised
Send_speculative(x, then, else) ==
    \E outcome \in Outcomes :
        /\ sched' = [sched EXCEPT !.pc = then,
                                  !.ok = IF outcome = "ok" THEN @ \cup {<<sched.u, x>>} ELSE @,
                                  !.raised = IF outcome = "ok" THEN @
                                             ELSE @ \cup {<<sched.u, x>>},
                                  !.evaluated = Evaluated(x)]
        /\ sent' = IF outcome = "ok" THEN Record(sched.u, x, sched.now.date) ELSE sent
\* a send whose exception ends the scan
Send_aborting(x, then, else) ==
    \E outcome \in Outcomes :
        IF outcome = "ok"
        THEN /\ sched' = [sched EXCEPT !.pc = then, !.ok = @ \cup {<<sched.u, x>>},
                                       !.evaluated = Evaluated(x)]
             /\ sent' = Record(sched.u, x, sched.now.date)
        ELSE /\ sched' = [sched EXCEPT !.pc = "sleep", !.raised = @ \cup {<<sched.u, x>>},
                                       !.evaluated = Evaluated(x)]
             /\ sent' = sent
\* the send of a trigger x that is due: the marker is written at "then" when
\* the send returned, and the trigger is dropped for this scan when it raised
Send(x, then, else) ==
    \E outcome \in Outcomes :
        IF outcome = "ok"
        THEN /\ sched' = [sched EXCEPT !.pc = then, !.ok = @ \cup {<<sched.u, x>>},
                                       !.evaluated = Evaluated(x)]
             /\ sent' = Record(sched.u, x, sched.now.date)
        ELSE /\ sched' = [sched EXCEPT !.pc = else, !.raised = @ \cup {<<sched.u, x>>},
                                       !.evaluated = Evaluated(x)]
             /\ sent' = sent
Skip(x, else) ==
    /\ sched' = [sched EXCEPT !.pc = else, !.evaluated = Evaluated(x)]
    /\ sent' = sent
\* pref_repo.merge of the session's document and db.commit
Write(patch, x, then) ==
    LET doc == merge(sched.doc, patch)
    IN /\ prefs_db' = [prefs_db EXCEPT ![sched.u] = doc]
       /\ sched' = [sched EXCEPT !.pc = then, !.doc = doc, !.ok = @ \ ({sched.u} \X x)]
       /\ UNCHANGED <<clock, chat, sent>>

CheckinSend ==
    /\ sched.pc = "checkin"
    /\ IF CheckinDue(sched.prefs, sched.now)
       THEN Send("checkin", "checkin_write", "weight")
       ELSE Skip("checkin", "weight")
    /\ UNCHANGED <<prefs_db, clock, chat>>
CheckinWrite ==
    /\ sched.pc = "checkin_write"
    /\ Write([last_checkin_request_utc |-> sched.now], {"checkin"}, "weight")
WeightSend ==
    /\ sched.pc = "weight"
    /\ IF WeightDue(sched.prefs, sched.now)
       THEN Send("weight", "weight_write", "reminders")
       ELSE Skip("weight", "reminders")
    /\ UNCHANGED <<prefs_db, clock, chat>>
WeightWrite ==
    /\ sched.pc = "weight_write"
    /\ Write([last_weight_prompt_date |-> sched.now.date], {"weight"}, "reminders")
\* for idx, r in enumerate(rems[:20]): the markers are collected in updated_last
ReminderSend ==
    /\ sched.pc = "reminders"
    /\ sched.idx < Len(Get(sched.prefs, "reminders", <<>>))
    /\ LET x == rid(sched.idx)
           last_sent == Get(sched.prefs, "reminders_last_sent", <<>>)
           base == IF sched.updated_last = None THEN last_sent ELSE sched.updated_last
       IN IF ReminderDue(sched.prefs, sched.idx, sched.now)
          THEN \E outcome \in Outcomes :
                  IF outcome = "ok"
                  THEN /\ sched' = [sched EXCEPT
                                       !.idx = @ + 1, !.ok = @ \cup {<<sched.u, x>>},
                                       !.evaluated = Evaluated(x),
                                       !.updated_last =
                                           merge(base, (x :> sched.now.date))]
                       /\ sent' = Record(sched.u, x, sched.now.date)
                  ELSE /\ sched' = [sched EXCEPT
                                       !.idx = @ + 1, !.raised = @ \cup {<<sched.u, x>>},
                                       !.evaluated = Evaluated(x)]
                       /\ sent' = sent
          ELSE /\ sched' = [sched EXCEPT !.idx = @ + 1, !.evaluated = Evaluated(x)]
               /\ sent' = sent
    /\ UNCHANGED <<prefs_db, clock, chat>>
\* after the loop: if updated_last is not None, one merge and one commit
RemindersEnd ==
    /\ sched.pc = "reminders"
    /\ sched.idx >= Len(Get(sched.prefs, "reminders", <<>>))
    /\ IF sched.updated_last # None
       THEN Write([reminders_last_sent |-> sched.updated_last], {"r0", "r1"}, "next")
       ELSE /\ sched' = [sched EXCEPT !.pc = "next"]
            /\ UNCHANGED <<prefs_db, clock, chat, sent>>
\* the next user of the scan, or the end of the scan and asyncio.sleep(60)
NextUser ==
    /\ sched.pc = "next"
    /\ sched' = IF sched.u < MaxUsers
                THEN [sched EXCEPT !.pc = "load", !.u = @ + 1]
                ELSE [sched EXCEPT !.pc = "sleep", !.u = 0, !.prefs = None, !.doc = None,
                                   !.idx = 0, !.updated_last = None]
    /\ UNCHANGED <<prefs_db, clock, chat, sent>>
\* a minute passes while the scheduler sleeps, and it scans again at least a
\* minute after the end of a scan; after the last scan around six
\* o'clock the next scan that finds a trigger in its window is a day later
Sleep ==
    /\ sched.pc \in {"sleep", "wake"}
    /\ IF clock.hh = LastScan.hh /\ clock.mm = LastScan.mm
       THEN /\ clock.date < today_local + MaxScanDays
            /\ clock' = [date |-> clock.date + 1, hh |-> FirstScan.hh, mm |-> FirstScan.mm]
       ELSE clock' = IF clock.mm = 59
                     THEN [clock EXCEPT !.hh = @ + 1, !.mm = 0]
                     ELSE [clock EXCEPT !.mm = @ + 1]
    /\ sched' = [sched EXCEPT !.pc = "wake"]
    /\ UNCHANGED <<prefs_db, chat, sent>>
\* _apply_coach_memory_if_needed: prefs = await pref_repo.get_json(user.id),
\* then the extractor is awaited
ChatLoad ==
    /\ chat.pc = "idle"
    /\ chat.runs < MaxChats
    /\ \E u \in Users, patch \in MemoryPatches :
          chat' = [chat EXCEPT !.pc = "await", !.u = u, !.doc = prefs_db[u],
                               !.patch = patch]
    /\ UNCHANGED <<prefs_db, clock, sched, sent>>
\* pref_repo.merge(user.id, merged_patch) on the document of the handler's
\* session, and the commit of the handler
ChatCommit ==
    /\ chat.pc = "await"
    /\ prefs_db' = [prefs_db EXCEPT ![chat.u] = merge(chat.doc, chat.patch)]
    /\ chat' = [chat EXCEPT !.pc = "idle", !.doc = None, !.runs = @ + 1]
    /\ UNCHANGED <<clock, sched, sent>>

NextSched ==
    \/ ScanStart /\ UNCHANGED beside_sched
    \/ LoadPrefs /\ UNCHANGED beside_sched
    \/ CheckinSend /\ UNCHANGED beside_sched
    \/ CheckinWrite /\ UNCHANGED beside_sched
    \/ WeightSend /\ UNCHANGED beside_sched
    \/ WeightWrite /\ UNCHANGED beside_sched
    \/ ReminderSend /\ UNCHANGED beside_sched
    \/ RemindersEnd /\ UNCHANGED beside_sched
    \/ NextUser /\ UNCHANGED beside_sched
    \/ Sleep /\ UNCHANGED beside_sched
    \/ ChatLoad /\ UNCHANGED beside_sched
    \/ ChatCommit /\ UNCHANGED beside_sched
SpecSched == Init /\ [][NextSched]_vars

\* the last-fired marker of trigger x in a preferences document
Marker(doc, x) ==
    IF x = "checkin" THEN Get(doc, "last_checkin_request_utc", None)
    ELSE IF x = "weight" THEN Get(doc, "last_weight_prompt_date", NoDate)
    ELSE Get(Get(doc, "reminders_last_sent", <<>>), x, NoDate)
Fired(x) == IF x = "checkin" THEN sched.now ELSE sched.now.date
\* a step of the scheduler on the document of its session
SchedStep == sched' # sched /\ sched.pc \notin {"sleep", "wake", "load", "next"}
\* the scheduler changes a marker only for a send of this scan that returned,
\* and what it changes it commits
AfterSend ==
    SchedStep =>
        /\ \A x \in Triggers :
              Marker(sched'.doc, x) # Marker(sched.doc, x) =>
                  /\ <<sched.u, x>> \in sched.ok
                  /\ <<sched.u, x>> \notin sched.raised
                  /\ Marker(sched'.doc, x) = Fired(x)
        /\ sched'.doc # sched.doc => prefs_db'[sched.u] = sched'.doc
        /\ \A x \in Triggers :
              <<sched.u, x>> \in sched'.raised \ sched.raised =>
                  /\ sched'.doc = sched.doc
                  /\ prefs_db' = prefs_db

SchedNext ==
    \/ ScanStart \/ LoadPrefs \/ CheckinSend \/ CheckinWrite \/ WeightSend
    \/ WeightWrite \/ ReminderSend \/ RemindersEnd \/ NextUser
SpecSchedLive == SpecSched /\ WF_vars(SchedNext /\ UNCHANGED beside_sched)

\* the stage that follows trigger x in the scan of one user
After(x) == IF x = "checkin" THEN "weight" ELSE "reminders"
\* C16: a send that raises changes nothing that is persisted and the scan goes
\* on with the next trigger of the same user; a scan ends only after the
\* triggers of every user have been evaluated, and a scan in which a send
\* raised does end, so the loop sleeps and scans again.
C16_FailureIsolated ==
    /\ [][/\ \A x \in Triggers :
                <<sched.u, x>> \in sched'.raised \ sched.raised =>
                    /\ prefs_db' = prefs_db
                    /\ sent' = sent
                    /\ sched'.u = sched.u
                    /\ sched'.pc = After(x)
                    /\ x = "r0" /\ Len(sched.prefs.reminders) > 1 => sched'.idx = 1
          /\ sched.pc # "sleep" /\ sched'.pc = "sleep" =>
                Users \X {"checkin", "weight"} \subseteq sched.evaluated]_vars
    /\ (sched.raised # {} /\ sched.pc # "sleep") ~> (sched.pc = "sleep")

\* C16 witness: the weight prompt of the first user raised, the one of the
\* second user was sent in the same scan, and the scan has ended.
C16_SecondUserServed ==
    /\ sched.pc = "sleep"
    /\ <<1, "weight">> \in sched.raised
    /\ sent[1]["weight"].times = 0
    /\ sent[2]["weight"].times = 1
    /\ Marker(prefs_db[1], "weight") = NoDate
    /\ Marker(prefs_db[2], "weight") = clock.date

\* C17: a daily time-window trigger (the weight prompt, each reminder) is
\* never sent twice to the same user on the same local date.
C17_OncePerDate ==
    \A u \in Users : \A x \in {"weight", "r0", "r1"} : sent[u][x].times <= 1

\* the keys the scheduler writes
MarkerKeys == {"last_checkin_request_utc", "last_weight_prompt_date", "reminders_last_sent"}
\* C20: a commit of the preferences of a user by one task, the handler
\* writing the keys of its patch or the scheduler writing a marker, leaves
\* the committed value of every other key of the document as it is.
C20_PerKeyLastWriter ==
    [][\A u \in Users :
          prefs_db'[u] # prefs_db[u] =>
              LET written == IF chat' # chat THEN DOMAIN chat.patch ELSE MarkerKeys
              IN \A k \in (DOMAIN prefs_db[u]) \ written :
                    /\ k \in DOMAIN prefs_db'[u]
                    /\ prefs_db'[u][k] = prefs_db[u][k]]_vars

\* ---------------------------------------------------------------------------
\* The time window of a daily trigger, as a function of the configured time,
\* the configured time zone and the moment of the scan.
\* ---------------------------------------------------------------------------
\* ZoneInfo(tz_name): the offset from UTC in minutes, in winter; a name that
\* is missing here makes ZoneInfo raise
UtcOffset == ("Europe/Prague" :> 60) @@ ("Asia/Tokyo" :> 540)
NoZone == "none"
Zones == {NoZone, "Europe/Prague", "Asia/Tokyo", "Mars/Olympus"}
\* tz_name of the scan: the configured string, or the default; an exception of
\* ZoneInfo gives the default zone
tz_of(timezone) ==
    LET tz_name == IF timezone = NoZone THEN "Europe/Prague" ELSE timezone
    IN IF tz_name \in DOMAIN UtcOffset THEN tz_name ELSE "Europe/Prague"
\* now_utc.astimezone(tz), hour and minute
astimezone(now_utc, tz) ==
    LET m == (now_utc + UtcOffset[tz]) % 1440
    IN [hh |-> m \div 60, mm |-> m % 60]
MaxDrift == 3
TrialTimes == {[hh |-> 6, mm |-> 0], [hh |-> 9, mm |-> 59], [hh |-> 23, mm |-> 58]}
Trials ==
    {[tstr |-> t, timezone |-> z, evaluated |-> FALSE, eligible |-> FALSE,
      now_utc |-> ((((t.hh * 60) + t.mm + d) - UtcOffset[tz_of(z)]) + 1440) % 1440] :
        t \in TrialTimes, z \in Zones, d \in (0 - MaxDrift)..MaxDrift}
InitWindow ==
    /\ Created
    /\ CreatedTier
    /\ CreatedRows
    /\ CreatedWeight
    /\ CreatedSched
    /\ CreatedMealRun
    /\ CreatedFailure
    /\ CreatedAttempt
    /\ CreatedClientRun
    /\ CreatedFoodRun
    /\ CreatedCalc
    /\ CreatedDailyRun
    /\ CreatedScanRun
    /\ trial \in Trials
\* the condition of the scan on one trigger
Evaluate ==
    /\ ~trial.evaluated
    /\ LET now_local == astimezone(trial.now_utc, tz_of(trial.timezone))
       IN trial' = [trial EXCEPT !.evaluated = TRUE,
                                 !.eligible = InWindow(trial.tstr.hh, trial.tstr.mm, now_local)]
NextWindow == Evaluate /\ UNCHANGED beside_trial
SpecWindow == InitWindow /\ [][NextWindow]_vars

\* the distance in minutes between two times of the day
Apart(a, b) ==
    LET d == ((((a.hh * 60) + a.mm) - ((b.hh * 60) + b.mm)) + 1440) % 1440
    IN Min(d, 1440 - d)
\* C18: a trigger configured for HH:MM is eligible exactly when the user's
\* local time is within 2 minutes before or after HH:MM.
C18_WindowBothSides ==
    trial.evaluated =>
        (trial.eligible <=>
            Apart(astimezone(trial.now_utc, tz_of(trial.timezone)), trial.tstr) <= 2)

(***************************************************************************)
(* The meal pipeline on its own: one call of _build_meal_from_items on a   *)
(* list of parsed items.  acc is the loop's (resolved, unresolved) at the  *)
(* return; draft and ctx are the pair returned.                            *)
(***************************************************************************)
I_BREAST == [query |-> "chicken breast", grams |-> 1500, barcode |-> NoBarcode]
I_YOGURT == [query |-> "yogurt", grams |-> 1250, barcode |-> NoBarcode]
I_BREAD == [query |-> "bread", grams |-> 600, barcode |-> NoBarcode]
I_WINGS_CODE == [query |-> "wings", grams |-> 1000, barcode |-> BC_WINGS]
I_RICE_CODE == [query |-> "rice", grams |-> 1000, barcode |-> BC_RICE]
I_BLANK == [query |-> "", grams |-> 1000, barcode |-> NoBarcode]
MealItems ==
    {I_RICE, I_RICE_TINY, I_CHICKEN, I_SOUP, I_BREAST, I_YOGURT, I_BREAD,
     I_WINGS_CODE, I_RICE_CODE, I_BLANK}
MealItemLists == UNION {[1..n -> MealItems] : n \in 0..MaxItems}
InitMeal ==
    /\ Created
    /\ CreatedTier
    /\ CreatedRows
    /\ CreatedWeight
    /\ CreatedSched
    /\ CreatedTrial
    /\ CreatedFailure
    /\ CreatedAttempt
    /\ CreatedClientRun
    /\ CreatedFoodRun
    /\ CreatedCalc
    /\ CreatedDailyRun
    /\ CreatedScanRun
    /\ meal_run \in {[NoMealRun EXCEPT !.items = its] : its \in MealItemLists}
MealCall ==
    /\ ~meal_run.called
    /\ LET r == _build_meal_from_items(meal_run.items)
       IN meal_run' = [meal_run EXCEPT
                         !.called = TRUE,
                         !.acc = BuildItems([resolved |-> <<>>, unresolved |-> <<>>],
                                            meal_run.items),
                         !.draft = r.draft,
                         !.ctx = r.ctx]
NextMeal == MealCall /\ UNCHANGED beside_meal_run
SpecMeal == InitMeal /\ [][NextMeal]_vars

\* what the claims say of an item, stated on the catalogue and the item alone
Counted(it) == it.query # "" /\ it.grams > 0
ByCode(it) == it.barcode # NoBarcode /\ (\E p \in Catalogue : p.barcode = it.barcode)
Complete(query) ==
    LET cands == search(query)
        RECURSIVE Keep(_)
        Keep(i) ==
            IF i > Len(cands) THEN <<>>
            ELSE IF /\ cands[i].kcal_100g # NoNum /\ cands[i].protein_100g # NoNum
                    /\ cands[i].fat_100g # NoNum /\ cands[i].carbs_100g # NoNum
                 THEN <<cands[i]>> \o Keep(i + 1)
                 ELSE Keep(i + 1)
    IN Keep(1)
Searched(it) == Counted(it) /\ ~ByCode(it)
Open(it) ==
    \/ Searched(it) /\ Len(Complete(it.query)) # 1
    \/ Counted(it) /\ ByCode(it)
         /\ \E p \in Catalogue : p.barcode = it.barcode /\ p.protein_100g = NoNum

\* C24: a draft is returned exactly when no item is unresolved; otherwise no
\* draft is returned and the context holds the resolved items and, for each
\* unresolved item in order, its query, its grams and -- for a searched item
\* with k complete candidates -- the first min(k, 5) of them in search order.
C24_DraftIffResolved ==
    meal_run.called =>
        LET open == SelectSeq(meal_run.items, Open)
            closed == SelectSeq(meal_run.items, LAMBDA it : Counted(it) /\ ~Open(it))
        IN /\ (meal_run.draft # None) <=> (open = <<>>)
           /\ (meal_run.draft = None) <=> (meal_run.ctx # None)
           /\ meal_run.ctx # None =>
                 /\ Len(meal_run.ctx.resolved) = Len(closed)
                 /\ \A i \in 1..Len(closed) :
                        meal_run.ctx.resolved[i].grams = RoundHalfEven(closed[i].grams, 10)
                 /\ Len(meal_run.ctx.unresolved) = Len(open)
                 /\ \A i \in 1..Len(open) :
                      LET u == meal_run.ctx.unresolved[i]
                          c == Complete(open[i].query)
                          k == Len(c)
                      IN /\ u.query = open[i].query
                         /\ u.grams = open[i].grams
                         /\ Searched(open[i]) =>
                               /\ Len(u.candidates) = Min(k, 5)
                               /\ \A j \in 1..Min(k, 5) : u.candidates[j] = c[j]
\* a resolved item beside an item whose search gave three complete candidates:
\* no draft, and exactly the three are attached
C24_ThreeCandidatesAttached ==
    /\ meal_run.called
    /\ meal_run.draft = None
    /\ meal_run.ctx # None
    /\ Len(meal_run.ctx.resolved) = 1
    /\ \E i \in 1..Len(meal_run.ctx.unresolved) :
          /\ meal_run.ctx.unresolved[i].query = "yogurt"
          /\ Len(meal_run.ctx.unresolved[i].candidates) = 3

\* C25: an item whose search gives exactly one candidate with all four
\* per-100g macros is resolved, not left for food_pick, and each of its macros
\* is the candidate's per-100g value times the grams divided by 100 (in
\* thousandths here: 165 kcal and 31 g protein at 150.0 g are 247500 and 46500).
C25_UniqueAccepted ==
    meal_run.called =>
        \A i \in 1..Len(meal_run.items) :
            LET it == meal_run.items[i]
            IN (Searched(it) /\ Len(Complete(it.query)) = 1) =>
                 LET c == Complete(it.query)[1]
                     before == SelectSeq(SubSeq(meal_run.items, 1, i),
                                         LAMBDA x : Counted(x) /\ ~Open(x))
                     r == meal_run.acc.resolved[Len(before)]
                 IN /\ \A j \in 1..Len(meal_run.acc.unresolved) :
                          meal_run.acc.unresolved[j].query # it.query
                    /\ r.name = c.name
                    /\ r.calories * 100 = c.kcal_100g * (it.grams * 100)
                    /\ r.protein_g * 100 = c.protein_100g * (it.grams * 100)
                    /\ r.fat_g * 100 = c.fat_100g * (it.grams * 100)
                    /\ r.carbs_g * 100 = c.carbs_100g * (it.grams * 100)
                    /\ (c.kcal_100g = 165 /\ c.protein_100g = 31 /\ it.grams = 1500) =>
                          (r.calories = 247500 /\ r.protein_g = 46500)
\* the chicken breast of 150 g has been resolved to 247.5 kcal and 46.5 g
C25_BreastResolved ==
    /\ meal_run.called
    /\ meal_run.items = <<I_BREAST>>
    /\ meal_run.draft # None
    /\ meal_run.acc.resolved[1].calories = 247500
    /\ meal_run.acc.resolved[1].protein_g = 46500

(***************************************************************************)
(* The replies to a failed oracle call.  An exception carries a message    *)
(* that the provider or the transport wrote; the handler that catches it   *)
(* builds the text it sends from that message.                             *)
(***************************************************************************)
IsAsciiAlnum(c) ==
    \/ c \in Digits
    \/ \E i \in 1..26 : c = UpperTokens[i] \/ c = LowerTokens[i]
RECURSIVE AlnumRun(_, _)
\* the length of the longest run of [A-Za-z0-9] that starts at position i
AlnumRun(s, i) ==
    IF i <= Len(s) /\ IsAsciiAlnum(s[i]) THEN 1 + AlnumRun(s, i + 1) ELSE 0
SK == <<"s", "k", "-">>
MASK == <<"s", "k", "-", "*", "*", "*">>
\* the length of the match of \bsk-[A-Za-z0-9]{10,}\b at position i, 0 without
KeyAt(s, i) ==
    LET n == AlnumRun(s, i + 3)
    IN IF /\ StartsAt(s, i, SK) /\ BoundaryAt(s, i)
          /\ n >= 10 /\ BoundaryAt(s, i + 3 + n)
       THEN 3 + n ELSE 0
RECURSIVE ScrubFrom(_, _)
ScrubFrom(s, i) ==
    IF i > Len(s) THEN <<>>
    ELSE IF KeyAt(s, i) > 0 THEN MASK \o ScrubFrom(s, i + KeyAt(s, i))
    ELSE <<s[i]>> \o ScrubFrom(s, i + 1)
_scrub_secrets(s) == IF s = <<>> THEN s ELSE ScrubFrom(s, 1)

RECURSIVE _escape_html(_)
_escape_html(s) ==
    IF s = <<>> THEN <<>>
    ELSE (CASE Head(s) = "&" -> <<"&", "a", "m", "p", ";">>
            [] Head(s) = "<" -> <<"&", "l", "t", ";">>
            [] Head(s) = ">" -> <<"&", "g", "t", ";">>
            [] OTHER -> <<Head(s)>>) \o _escape_html(Tail(s))

\* settings.openai_api_key in its two formats, and settings.bot_token
KEY_CLASSIC == SK \o <<"a", "1", "b", "2", "c", "3", "d", "4", "e", "5", "f", "6">>
KEY_PROJECT ==
    SK \o <<"p", "r", "o", "j", "-", "a", "1", "b", "2", "c", "3", "d", "4", "e", "5", "f", "6">>
BOT_TOKEN == <<"7", "7", "1", ":", "A", "A", "F", "-", "x", "9", "Q">>
Secrets == {KEY_CLASSIC, KEY_PROJECT, BOT_TOKEN}

\* str(e) of the exceptions
E_EMPTY == <<>>
E_TIMEOUT == <<"t", "i", "m", "e", "o", "u", "t">>
E_TAGGED == <<"<", "h", "t", "m", "l", ">", " ", "5", "0", "2">>
E_KEY == <<"b", "a", "d", " ", "k", "e", "y", ":", " ">> \o KEY_CLASSIC \o <<".">>
E_KEY_TWICE == KEY_CLASSIC \o <<" ">> \o KEY_CLASSIC
E_KEY_PROJECT == <<"b", "a", "d", " ", "k", "e", "y", ":", " ">> \o KEY_PROJECT
E_URL == <<"/", "f", "i", "l", "e", "/", "b", "o", "t">> \o BOT_TOKEN \o <<"/", "v">>
ErrorTexts == {E_EMPTY, E_TIMEOUT, E_TAGGED, E_KEY, E_KEY_TWICE, E_KEY_PROJECT, E_URL}

\* the handlers that answer with a detail of the exception
RawPaths ==
    {"photo", "voice.download", "voice.speech", "voice.items", "photo.clarify",
     "meal.clarify", "recipe", "text"}
ScrubbedPaths == {"coach_chat", "plan_generation"}
FailurePaths == RawPaths \cup ScrubbedPaths
SNIP == 180

\* the f-string of the handler: its lead, then the detail
Lead(path) == <<path>>
RawReply(path, e) == Lead(path) \o e
ScrubbedReply(path, e) ==
    LET err_snip == Strip(_scrub_secrets(e))
    IN Lead(path) \o <<"RuntimeError">> \o
         (IF err_snip # <<>> THEN _escape_html(FirstN(err_snip, SNIP)) ELSE <<>>)

InitFailure ==
    /\ Created
    /\ CreatedTier
    /\ CreatedRows
    /\ CreatedWeight
    /\ CreatedSched
    /\ CreatedTrial
    /\ CreatedMealRun
    /\ CreatedAttempt
    /\ CreatedClientRun
    /\ CreatedFoodRun
    /\ CreatedCalc
    /\ CreatedDailyRun
    /\ CreatedScanRun
    /\ failure \in {[NoFailure EXCEPT !.path = p, !.e = e] : p \in FailurePaths, e \in ErrorTexts}
\* "except Exception as e: await message.answer(f"... {e}")"
AnswerRaw ==
    /\ ~failure.replied
    /\ failure.path \in RawPaths
    /\ failure' = [failure EXCEPT !.replied = TRUE,
                                   !.text = RawReply(failure.path, failure.e)]
\* the except clauses of _handle_coach_chat and _generate_plan_for_days
AnswerScrubbed ==
    /\ ~failure.replied
    /\ failure.path \in ScrubbedPaths
    /\ failure' = [failure EXCEPT !.replied = TRUE, !.scrubbed = TRUE,
                                   !.text = ScrubbedReply(failure.path, failure.e)]
NextFailure == (AnswerRaw \/ AnswerScrubbed) /\ UNCHANGED beside_failure
SpecFailure == InitFailure /\ [][NextFailure]_vars

\* C27: no text sent to a user holds a raw secret, and the error detail of
\* every reply to a failure has passed through _scrub_secrets.
C27_NoRawSecretSent ==
    failure.replied =>
        /\ failure.scrubbed
        /\ \A k \in Secrets : ~Contains(failure.text, k)

(***************************************************************************)
(* The flows that validate an answer, each on its own: the user is in one  *)
(* of the modes, with a payload the mode was entered with, and sends one   *)
(* text; attempt keeps the text, the store before it and the reply.        *)
(***************************************************************************)
NoAnswers ==
    [age |-> NoNum, sex |-> Null, height_cm |-> NoNum, weight_kg |-> NoNum,
     activity_level |-> Null, goal |-> Null, tempo_key |-> Null, notes |-> <<>>]
\* the answers collected before question k
AnswersBefore(k) ==
    [NoAnswers EXCEPT !.age = IF k > 1 THEN 29 ELSE NoNum,
                      !.sex = IF k > 2 THEN "male" ELSE Null,
                      !.height_cm = IF k > 3 THEN 1780 ELSE NoNum,
                      !.weight_kg = IF k > 4 THEN 825 ELSE NoNum,
                      !.activity_level = IF k > 5 THEN "low" ELSE Null]
PickOf(query) ==
    set_dialog("food_pick", 0,
        [ctx |-> [unresolved |->
                      <<[query |-> query, grams |-> 1500,
                         candidates |-> FirstN(Usable(search(query)), OFF_PAGE)]>>,
                  resolved |-> <<>>],
         source |-> "text", photo_file_id |-> None])
ValidatingModes ==
    {set_dialog("set_weight", 0, None), set_dialog("plan_when", 0, None),
     set_dialog("plan_date", 0, None), PickOf("chicken"), PickOf("soup"),
     set_dialog("onboarding", 6,
                [answers |-> [AnswersBefore(6) EXCEPT !.goal = "loss"],
                 awaiting_goal_tempo |-> TRUE])} \cup
    {set_dialog("onboarding", k, [answers |-> AnswersBefore(k), awaiting_goal_tempo |-> FALSE])
       : k \in 1..6}
InitValidate ==
    /\ \E u \in ValidatingModes :
          /\ dialog_state = u.state
          /\ dialog_step = u.step
          /\ dialog_data = u.data
    /\ profile_complete = (dialog_state # "onboarding")
    /\ meals = <<>>
    /\ plans = {}
    /\ gen = <<>>
    /\ now = 0
    /\ out = Seen("init", "none", FALSE, FALSE, FALSE, "none", FALSE)
    /\ CreatedTier
    /\ CreatedRows
    /\ CreatedWeight
    /\ CreatedSched
    /\ CreatedTrial
    /\ CreatedMealRun
    /\ CreatedFailure
    /\ CreatedAttempt
    /\ CreatedClientRun
    /\ CreatedFoodRun
    /\ CreatedCalc
    /\ CreatedDailyRun
    /\ CreatedScanRun
\* any_text on one text, with what the store held before it
Answer ==
    /\ ~attempt.done
    /\ \E text \in Texts \cup ValidationTexts :
         \E r \in any_text_results(Strip(text)) :
            /\ Effect(r, Strip(text))
            /\ attempt' = [done |-> TRUE, text |-> Strip(text),
                           before |-> [state |-> dialog_state, step |-> dialog_step,
                                       data |-> dialog_data, meals |-> meals, plans |-> plans,
                                       profile_complete |-> profile_complete],
                           h |-> r.h, reply |-> r.reply, raised |-> r.raised]
NextValidate == Answer /\ UNCHANGED beside_bot_attempt
SpecValidate == InitValidate /\ [][NextValidate]_vars

\* the texts a user types, as opposed to the labels of the keyboards
Typed ==
    {T_CANCEL_WORD, Strip(T_YES_LOUD), T_NO, T_ONE, T_TWO, BC_CHICKEN, BC_WINGS, BC_UNKNOWN,
     T_DATE_TODAY, T_MEAL, T_DAY_TWO} \cup ValidationTexts
\* the typed texts that are a valid answer in a mode, listed by hand
ValidIn(was) ==
    CASE was.state = "set_weight" -> {t \in Typed : \E i \in 1..Len(t) : t[i] \in Digits}
      [] was.state \in {"plan_when", "plan_date"} -> {T_DATE_TODAY}
      [] was.state = "food_pick" ->
           {BC_CHICKEN, BC_WINGS} \cup
           (IF was.data = PickOf("chicken").data THEN {T_ONE, T_TWO} ELSE {})
      [] was.state = "onboarding" ->
           (CASE was.step = 1 -> {T_AGE, T_WEIGHT}
              [] was.step = 2 -> {T_SEX}
              [] was.step = 3 -> {T_HEIGHT, T_MEAL}
              [] was.step = 4 -> {T_HEIGHT, T_WEIGHT, T_MEAL}
              [] was.step = 5 -> {T_ACTIVITY}
              [] was.step = 6 /\ loads(was.data).awaiting_goal_tempo -> {T_TEMPO}
              [] OTHER -> {T_GOAL})
      [] OTHER -> {}
FailsValidation ==
    /\ attempt.done
    /\ attempt.text \in Typed
    /\ attempt.text \notin ValidIn(attempt.before)

J_OBJECT == <<"{", "\"ok\":true", "}">>
J_WRAPPED == <<"Sure:", Blank, "{", "\"ok\":true", "}", Blank>>
J_PROSE == <<"hello">>
J_ARRAY == <<"[", "1", "]">>
J_BROKEN == <<"{", "ok", "}">>
Completions == {J_OBJECT, J_WRAPPED, J_PROSE, J_ARRAY, J_BROKEN}

NotJson == [notjson |-> TRUE]
\* json.loads on the documents of the model
json_loads(t) ==
    CASE t = J_OBJECT -> [type |-> "dict", of |-> J_OBJECT]
      [] t = J_ARRAY -> [type |-> "list", of |-> J_ARRAY]
      [] OTHER -> NotJson
\* str.find and str.rfind of one character, 0 when it is absent
FindChar(t, ch) ==
    IF \E i \in 1..Len(t) : t[i] = ch
    THEN CHOOSE i \in 1..Len(t) : t[i] = ch /\ \A j \in 1..(i - 1) : t[j] # ch
    ELSE 0
RFindChar(t, ch) ==
    IF \E i \in 1..Len(t) : t[i] = ch
    THEN CHOOSE i \in 1..Len(t) : t[i] = ch /\ \A j \in (i + 1)..Len(t) : t[j] # ch
    ELSE 0
_try_parse_json(text) ==
    LET t == Strip(text)
        whole == json_loads(t)
        start == FindChar(t, "{")
        end == RFindChar(t, "}")
    IN  IF whole # NotJson
        THEN IF whole.type = "dict" THEN whole ELSE None
        ELSE IF start # 0 /\ end # 0 /\ end > start
             THEN LET part == json_loads(SubSeq(t, start, end))
                  IN  IF part # NotJson /\ part.type = "dict" THEN part ELSE None
             ELSE None

MCT == "max_completion_tokens"
MT == "max_tokens"
RF == "response_format"
\* str.lower on the fragments of a message
LowerFrag(f) == IF f = "Unsupported parameter" THEN "unsupported parameter" ELSE f
InMsg(e, frag) == \E i \in 1..Len(e.msg) : LowerFrag(e.msg[i]) = frag
_is_unsupported_param_error(e, param) ==
    /\ InMsg(e, "unsupported parameter") \/ InMsg(e, "invalid_request_error")
    /\ InMsg(e, param)

\* the request timed out: asyncio.TimeoutError has an empty message
E_TIMED_OUT == [cause |-> "timeout", param |-> "none", msg |-> <<>>]
\* the model does not take the parameter
E_NO_MCT == [cause |-> "unsupported", param |-> MCT,
             msg |-> <<"Error code: 400", "Unsupported parameter", MCT, "invalid_request_error">>]
E_NO_RF == [cause |-> "unsupported", param |-> RF,
            msg |-> <<"Error code: 400", "invalid_request_error", RF, "is not supported">>]
\* the model takes the parameter and rejects the value it was given
E_MCT_TOO_LARGE == [cause |-> "invalid_value", param |-> MCT,
                    msg |-> <<"Error code: 400", MCT, "is too large", "invalid_request_error">>]
\* the account is out of quota
E_QUOTA == [cause |-> "quota", param |-> "none",
            msg |-> <<"Error code: 429", "insufficient_quota">>]
ChatErrors == {E_TIMED_OUT, E_NO_MCT, E_NO_RF, E_MCT_TOO_LARGE, E_QUOTA}
ResponsesErrors == {E_TIMED_OUT, E_NO_RF}
Completed == {[kind |-> "ok", body |-> b, err |-> None] : b \in Completions}
Failed(errors) == {[kind |-> "error", body |-> <<>>, err |-> e] : e \in errors}

Returned(obj) == [kind |-> "return", obj |-> obj, exc |-> "none"]
Raised(exc) == [kind |-> "raise", obj |-> None, exc |-> exc]
\* one more request of the call, and what came back
Sent(c, api, tokens, format, o) ==
    [c EXCEPT !.reqs = Append(@, [call |-> c.call, api |-> api, tokens |-> tokens,
                                  format |-> format, strict |-> c.phase # "first"]),
              !.replies = Append(@, o)]
Over(c, result) == [c EXCEPT !.phase = "done", !.stage = "none", !.result = result]
\* the next _chat_create or _responses_create_text of text_json
Enter(c, phase, stage, response_format) ==
    [c EXCEPT !.phase = phase, !.stage = stage, !.response_format = response_format,
              !.last_err = None, !.call = @ + 1]

\* text_json after the call it awaited has raised
text_json_raised(c, exc) ==
    IF c.phase = "last" THEN Over(c, Raised("ValueError")) ELSE Over(c, Raised(exc))
\* text_json after the call it awaited has returned a completion: parse it,
\* and ask again with the strict suffix while no object came out
text_json_single(c, text) ==
    LET obj == _try_parse_json(text)
    IN  IF obj # None THEN Over(c, Returned(obj)) ELSE Over(c, Raised("ValueError"))
text_json(c, text) ==
    LET obj == _try_parse_json(text)
    IN  IF obj # None THEN Over(c, Returned(obj))
        ELSE IF c.phase = "first"
             THEN IF c.has_responses_api
                  THEN Enter(c, "retry", "text_format", TRUE)
                  ELSE Enter(c, "retry", "completion", FALSE)
        ELSE IF c.phase = "retry" /\ c.has_responses_api
             THEN Enter(c, "last", "completion", TRUE)
        ELSE Over(c, Raised("ValueError"))

\* one request of _chat_create and the handling of its outcome
_chat_create(c, o) ==
    LET format == IF c.response_format /\ c.stage \in {"completion", "tokens"}
                  THEN "json_object" ELSE "none"
        tokens == IF c.stage \in {"completion", "completion_bare"} THEN MCT ELSE MT
        d == Sent(c, "chat", tokens, format, o)
        e == o.err
    IN  IF o.kind = "ok" THEN text_json(d, Strip(o.body))
        ELSE CASE c.stage = "completion" ->
                    IF c.response_format /\ _is_unsupported_param_error(e, RF)
                    THEN [d EXCEPT !.stage = "completion_bare", !.last_err = e]
                    ELSE IF ~_is_unsupported_param_error(e, MCT)
                         THEN text_json_raised(d, "RuntimeError")
                         ELSE [d EXCEPT !.stage = "tokens", !.last_err = e]
               [] c.stage = "completion_bare" ->
                    IF ~_is_unsupported_param_error(e, MCT)
                    THEN text_json_raised(d, "RuntimeError")
                    ELSE [d EXCEPT !.stage = "tokens", !.last_err = e]
               [] c.stage = "tokens" ->
                    IF c.response_format /\ _is_unsupported_param_error(e, RF)
                    THEN [d EXCEPT !.stage = "tokens_bare", !.last_err = e]
                    ELSE text_json_raised(d, "RuntimeError")
               [] OTHER -> text_json_raised(d, e.cause)

\* one request of _responses_create_text(enforce_json=True) and its outcome
_responses_create_text(c, o) ==
    LET format == CASE c.stage = "text_format" -> "text.format"
                    [] c.stage = "response_format" -> "json_object"
                    [] OTHER -> "none"
        d == Sent(c, "responses", "max_output_tokens", format, o)
    IN  IF o.kind = "ok" THEN text_json(d, Strip(o.body))
        ELSE CASE c.stage = "text_format" ->
                    [d EXCEPT !.stage = "response_format", !.last_err = o.err]
               [] c.stage = "response_format" ->
                    [d EXCEPT !.stage = "plain", !.last_err = o.err]
               [] OTHER -> text_json_raised(d, "RuntimeError")

ChatStages == {"completion", "completion_bare", "tokens", "tokens_bare"}
ResponsesStages == {"text_format", "response_format", "plain"}
\* text_json is called: its first request is about to go out
Calling(b) ==
    [has_responses_api |-> b, phase |-> "first",
     stage |-> IF b THEN "text_format" ELSE "completion", response_format |-> ~b,
     last_err |-> None, call |-> 1, reqs |-> <<>>, replies |-> <<>>, result |-> None]
InitClient ==
    /\ client_run \in {Calling(b) : b \in BOOLEAN}
    /\ CreatedFoodRun
    /\ CreatedCalc
    /\ CreatedDailyRun
    /\ CreatedScanRun
    /\ Created
    /\ CreatedTier
    /\ CreatedRows
    /\ CreatedWeight
    /\ CreatedSched
    /\ CreatedTrial
    /\ CreatedMealRun
    /\ CreatedFailure
    /\ CreatedAttempt
ChatRequest ==
    /\ client_run.stage \in ChatStages
    /\ \E o \in Completed \cup Failed(ChatErrors) : client_run' = _chat_create(client_run, o)
ResponsesRequest ==
    /\ client_run.stage \in ResponsesStages
    /\ \E o \in Completed \cup Failed(ResponsesErrors) :
          client_run' = _responses_create_text(client_run, o)
NextClient == (ChatRequest \/ ResponsesRequest) /\ UNCHANGED beside_client_run
SpecClient == InitClient /\ [][NextClient]_vars

\* the completions that hold a JSON object, listed by hand
HoldsObject(body) == body \in {J_OBJECT, J_WRAPPED}
Got(i) == client_run.replies[i].kind = "ok"
\* the first completion of the call has arrived as reply i and holds no object
FirstUnparsed(i) ==
    /\ i \in 1..Len(client_run.replies)
    /\ Got(i)
    /\ \A j \in 1..(i - 1) : ~Got(j)
    /\ ~HoldsObject(client_run.replies[i].body)
StrictAnswers(i) ==
    {j \in (i + 1)..Len(client_run.reqs) : client_run.reqs[j].strict /\ Got(j)}

\* C29: when the first completion of text_json holds no JSON object, every
\* later request carries the strict JSON-only suffix in its system prompt and
\* at least one such request is issued before the call ends; the call returns
\* the object of a retry completion when one holds an object, and it raises
\* only when no retry completion held one.
C29_RetriesStrictly ==
    \A i \in 1..Len(client_run.replies) :
       FirstUnparsed(i) =>
          /\ \A j \in (i + 1)..Len(client_run.reqs) : client_run.reqs[j].strict
          /\ \A j \in 1..i : ~client_run.reqs[j].strict
          /\ client_run.phase = "done" =>
                /\ \E j \in (i + 1)..Len(client_run.reqs) : client_run.reqs[j].strict
                /\ client_run.result.kind = "return" =>
                      /\ \E j \in StrictAnswers(i) : HoldsObject(client_run.replies[j].body)
                      /\ client_run.result.obj = [type |-> "dict", of |-> J_OBJECT]
                /\ client_run.result.kind = "raise" =>
                      \A j \in StrictAnswers(i) : ~HoldsObject(client_run.replies[j].body)
\* without the Responses API the first completion was prose and the strict
\* retry returned the object
C29_RetryReturnedObject ==
    /\ ~client_run.has_responses_api
    /\ client_run.phase = "done"
    /\ Len(client_run.reqs) = 2
    /\ FirstUnparsed(1)
    /\ client_run.replies[1].body = J_PROSE
    /\ client_run.reqs[2].strict
    /\ client_run.replies[2].body = J_OBJECT
    /\ client_run.result.kind = "return"

\* request j opens a call of _chat_create
OpensChat(j) ==
    /\ client_run.reqs[j].api = "chat"
    /\ j = 1 \/ client_run.reqs[j - 1].call # client_run.reqs[j].call
\* an earlier request of the same call failed because the model does not
\* take max_completion_tokens
RefusedBefore(j) ==
    \E i \in 1..(j - 1) :
       /\ client_run.reqs[i].call = client_run.reqs[j].call
       /\ client_run.replies[i].kind = "error"
       /\ client_run.replies[i].err.cause = "unsupported"
       /\ client_run.replies[i].err.param = MCT

\* C30: every call of _chat_create opens with a request that carries
\* max_completion_tokens, and a request that carries max_tokens follows, in
\* its call, a failure whose error says that max_completion_tokens is not
\* supported.
C30_MaxTokensOnlyWhenRefused ==
    \A j \in 1..Len(client_run.reqs) :
       /\ OpensChat(j) => client_run.reqs[j].tokens = MCT
       /\ client_run.reqs[j].tokens = MT => RefusedBefore(j)

(***************************************************************************)
(* Drafts.  A list of parsed items goes through _build_meal_from_items and *)
(* then, when items stay unresolved, through the answers of food_pick.     *)
(***************************************************************************)
I_RICE_HALF == [query |-> "rice", grams |-> 1505, barcode |-> NoBarcode]
I_RICE_ODD == [query |-> "rice", grams |-> 1515, barcode |-> NoBarcode]
DraftItems ==
    {I_RICE, I_RICE_TINY, I_RICE_HALF, I_RICE_ODD, I_BREAST, I_CHICKEN, I_YOGURT, I_RICE_CODE}
DraftItemLists == UNION {[1..n -> DraftItems] : n \in 0..MaxItems}
\* what the user answers to a food_pick question
DraftPicks == {T_ONE, T_TWO, BC_CHICKEN, BC_WINGS, CancelLiteral}
InitDraft ==
    /\ Created
    /\ CreatedTier
    /\ CreatedRows
    /\ CreatedWeight
    /\ CreatedSched
    /\ CreatedTrial
    /\ CreatedFailure
    /\ CreatedAttempt
    /\ CreatedClientRun
    /\ CreatedFoodRun
    /\ CreatedCalc
    /\ CreatedDailyRun
    /\ CreatedScanRun
    /\ meal_run \in {[NoMealRun EXCEPT !.items = its] : its \in DraftItemLists}
\* the items arrive: _build_meal_from_items, then food_pick or the confirmation
BuildDraft ==
    /\ ~meal_run.called
    /\ LET r == _build_meal_from_items(meal_run.items)
           b == Built(meal_run.items, "text", None)
       IN /\ meal_run' = [meal_run EXCEPT !.called = TRUE, !.draft = r.draft, !.ctx = r.ctx]
          /\ Effect(Res(b.user, TRUE, "meal.built", b.reply), <<>>)
\* one answer in food_pick
PickDraft ==
    /\ meal_run.called
    /\ dialog_state = "food_pick"
    /\ \E t \in DraftPicks : \E r \in _handle_food_pick(t) : Effect(r, t)
    /\ UNCHANGED meal_run
NextDraft == (BuildDraft \/ PickDraft) /\ UNCHANGED beside_bot_meal_run
SpecDraft == InitDraft /\ [][NextDraft]_vars

ItemsGrams(draft) == SumOf(LAMBDA it : it.grams, draft.items)
ItemsCalories(draft) == SumOf(LAMBDA it : it.calories, draft.items)
Conserved(draft) ==
    /\ draft.totals.total_weight_g = ItemsGrams(draft)
    /\ Abs(ItemsCalories(draft) - draft.totals.calories) <= Len(draft.items)
\* the draft that waits for the confirmation, None when none does
Waiting == IF dialog_state = "meal_confirm" THEN get_dialog_data.draft ELSE None

\* C31: in every draft, the one _build_meal_from_items returns and the one
\* that food_pick completes and hands to the confirmation, total_weight_g is
\* the sum of the items' grams and the sum of the items' rounded calories is
\* within the number of items of the rounded total calories.
C31_TotalsConserved ==
    /\ meal_run.draft # None => Conserved(meal_run.draft)
    /\ Waiting # None => Conserved(Waiting)
\* food_pick has completed a draft of two items whose rounded calories add
\* up to one more than the rounded total
C31_PickedDraftRoundsApart ==
    /\ meal_run.called
    /\ meal_run.ctx # None
    /\ Waiting # None
    /\ Len(Waiting.items) = 2
    /\ ItemsCalories(Waiting) = Waiting.totals.calories + 1
    /\ Waiting.totals.total_weight_g = ItemsGrams(Waiting)

(***************************************************************************)
(* The Food cache.  The oracle is stable: the product endpoint and the     *)
(* search endpoint return the same product record for a code.  A product   *)
(* is the JSON of the oracle, its nutriments still as the oracle sends     *)
(* them; per-100g values are in whole units.                               *)
(***************************************************************************)
BC_WATER == <<"2", "0", "0", "0", "0", "0", "0", "1">>
BC_JUICE == <<"2", "0", "0", "0", "0", "0", "0", "2">>
\* a code the oracle answers with the product filed under its padded form
BC_SHORT == <<"4", "0", "0", "6", "0", "4", "0", "1", "9">>
BC_PADDED == <<"0">> \o BC_SHORT
Prod(code, name, kcal, value, p, f, c) ==
    [code |-> code, product_name |-> name,
     nutriments |-> [energy_kcal_100g |-> kcal, energy_kcal_value |-> value,
                     proteins_100g |-> p, fat_100g |-> f, carbohydrates_100g |-> c]]
R_RICE == Prod(BC_RICE, "Rice", 130, NoNum, 3, 0, 28)
R_WINGS == Prod(BC_WINGS, "Chicken wings", 203, 203, NoNum, 13, 0)
\* 0 kcal per 100 g and no value per serving
R_WATER == Prod(BC_WATER, "Water", 0, NoNum, 0, 0, 0)
\* the energy only as the value of the label
R_JUICE == Prod(BC_JUICE, "Juice", NoNum, 46, 0, 0, 11)
R_PADDED == Prod(BC_PADDED, "Oats", 370, NoNum, 13, 7, 59)
\* a product without a name: search leaves it out
R_NAMELESS == Prod(BC_CHICKEN, "", 165, NoNum, 31, 4, 0)
Products == {R_RICE, R_WINGS, R_WATER, R_JUICE, R_PADDED, R_NAMELESS}
ProductCodes == {BC_RICE, BC_WINGS, BC_WATER, BC_JUICE, BC_SHORT, BC_PADDED, BC_CHICKEN, BC_UNKNOWN}
\* GET /api/v2/product/{barcode}.json: the product, None for status != 1
ProductOf(barcode) ==
    IF barcode = BC_SHORT THEN R_PADDED
    ELSE IF \E r \in Products : r.code = barcode
    THEN CHOOSE r \in Products : r.code = barcode
    ELSE None
\* GET /cgi/search.pl: the products of the page
FoodQueries == {"rice", "drinks", "chicken", "oats"}
ProductsFor(query) ==
    CASE query = "rice" -> <<R_RICE>>
      [] query = "drinks" -> <<R_WATER, R_JUICE>>
      [] query = "chicken" -> <<R_NAMELESS, R_WINGS>>
      [] query = "oats" -> <<R_PADDED>>
      [] OTHER -> <<>>

\* "_f(a) or _f(b)": a float that is None or 0.0 gives way to the second
FloatOr(a, b) == IF a = NoNum \/ a = 0 THEN b ELSE a
_nutrients_from_product(prod) ==
    [kcal_100g |-> FloatOr(prod.nutriments.energy_kcal_100g, prod.nutriments.energy_kcal_value),
     protein_100g |-> prod.nutriments.proteins_100g,
     fat_100g |-> prod.nutriments.fat_100g,
     carbs_100g |-> prod.nutriments.carbohydrates_100g]
FoodCandidate(barcode, name, n) ==
    [barcode |-> barcode, name |-> name, kcal_100g |-> n.kcal_100g,
     protein_100g |-> n.protein_100g, fat_100g |-> n.fat_100g, carbs_100g |-> n.carbs_100g]
\* openfoodfacts.get_by_barcode and openfoodfacts.search on the products
off_get_by_barcode(barcode) ==
    LET prod == ProductOf(barcode)
    IN  IF prod = None THEN None
        ELSE FoodCandidate(IF prod.code # NoBarcode THEN prod.code ELSE barcode,
                           IF prod.product_name = "" THEN "barcode" ELSE prod.product_name,
                           _nutrients_from_product(prod))
off_search(query) ==
    LET named == SelectSeq(ProductsFor(query), LAMBDA prod : prod.product_name # "")
    IN  [i \in 1..Len(named) |->
            FoodCandidate(named[i].code, named[i].product_name,
                          _nutrients_from_product(named[i]))]

\* FoodRepo.get_by_barcode and FoodRepo.upsert; by is who wrote the row
FoodRow(cand, by) ==
    [barcode |-> cand.barcode, name |-> cand.name,
     nutriments_json |-> dumps([kcal_100g |-> cand.kcal_100g,
                                 protein_100g |-> cand.protein_100g,
                                 fat_100g |-> cand.fat_100g,
                                 carbs_100g |-> cand.carbs_100g]),
     by |-> by]
FoodRepo_get_by_barcode(foods, barcode) ==
    IF \E f \in foods : f.barcode = barcode
    THEN CHOOSE f \in foods : f.barcode = barcode
    ELSE None
\* upsert that stores the energy as whole tens
FoodRepo_upsert_coarse(foods, cand, by) ==
    {f \in foods : f.barcode # cand.barcode}
       \cup {FoodRow([cand EXCEPT !.kcal_100g = IF @ = NoNum THEN @ ELSE (@ \div 10) * 10], by)}
\* FoodRepo.upsert: the row of the barcode is replaced, a candidate without a
\* barcode is a row of its own
FoodRepo_upsert(foods, cand, by) ==
    {f \in foods : cand.barcode = NoBarcode \/ f.barcode # cand.barcode}
       \cup {FoodRow(cand, by)}
\* FoodService.resolve_by_barcode: (candidate, foods after it, who served it)
FoodService_resolve_by_barcode(foods, barcode) ==
    LET cached == FoodRepo_get_by_barcode(foods, barcode)
        nutr == loads(cached.nutriments_json)
        cand == off_get_by_barcode(barcode)
    IN  IF cached # None
        THEN [cand |-> FoodCandidate(cached.barcode, cached.name, nutr), foods |-> foods,
              served |-> "cache"]
        ELSE IF cand = None THEN [cand |-> None, foods |-> foods, served |-> "oracle"]
        ELSE [cand |-> cand, foods |-> FoodRepo_upsert(foods, cand, "lookup"),
              served |-> "oracle"]
\* FoodService.search: the rows after the candidates with a barcode are cached
RECURSIVE CacheAll(_, _)
CacheAll(foods, cands) ==
    IF cands = <<>> THEN foods
    ELSE CacheAll(IF Head(cands).barcode # NoBarcode
                  THEN FoodRepo_upsert(foods, Head(cands), "search") ELSE foods,
                  Tail(cands))
FoodService_search(foods, query) == CacheAll(foods, off_search(query))

MaxResolutions == 3
InitFood ==
    /\ Created
    /\ CreatedTier
    /\ CreatedRows
    /\ CreatedWeight
    /\ CreatedSched
    /\ CreatedTrial
    /\ CreatedMealRun
    /\ CreatedFailure
    /\ CreatedAttempt
    /\ CreatedClientRun
    /\ food_run = NoFoodRun
    /\ CreatedCalc
    /\ CreatedDailyRun
    /\ CreatedScanRun
Resolve ==
    /\ Len(food_run.log) < MaxResolutions
    /\ \E barcode \in ProductCodes :
          LET r == FoodService_resolve_by_barcode(food_run.foods, barcode)
          IN  food_run' = [foods |-> r.foods,
                           log |-> Append(food_run.log,
                                     [barcode |-> barcode, cand |-> r.cand, served |-> r.served,
                                      by |-> IF r.served = "cache"
                                             THEN FoodRepo_get_by_barcode(food_run.foods, barcode).by
                                             ELSE "none"])]
Search ==
    \E query \in FoodQueries :
       food_run' = [food_run EXCEPT !.foods = FoodService_search(@, query)]
\* the session of a handler ends without a commit: its cache rows are gone
Rollback ==
    \E f \in food_run.foods : food_run' = [food_run EXCEPT !.foods = @ \ {f}]
NextFood == (Resolve \/ Search \/ Rollback) /\ UNCHANGED beside_food_run
SpecFood == InitFood /\ [][NextFood]_vars

MacrosOf(cand) ==
    <<cand.kcal_100g, cand.protein_100g, cand.fat_100g, cand.carbs_100g>>
\* C32: any two resolutions of one barcode that return a candidate return the
\* same kcal, protein, fat and carbs per 100 g, whether the cache or the
\* oracle served them and whether the lookup or the search wrote the cache row.
C32_SameMacros ==
    \A i, j \in 1..Len(food_run.log) :
       /\ food_run.log[i].barcode = food_run.log[j].barcode
       /\ food_run.log[i].cand # None
       /\ food_run.log[j].cand # None
       => MacrosOf(food_run.log[i].cand) = MacrosOf(food_run.log[j].cand)
\* one barcode resolved three times: from the oracle, from a row the lookup
\* wrote and from a row the search wrote
C32_ServedThreeWays ==
    /\ Len(food_run.log) = 3
    /\ \A i \in 1..3 : food_run.log[i].barcode = BC_JUICE /\ food_run.log[i].cand # None
    /\ {<<food_run.log[i].served, food_run.log[i].by>> : i \in 1..3} =
          {<<"oracle", "none">>, <<"cache", "lookup">>, <<"cache", "search">>}

(***************************************************************************)
(* nutrition.py on its own.  Heights are whole centimetres, weights tenths *)
(* of a kilogram, a deficit is in percent; the BMR is carried in quarters  *)
(* of a kcal and the TDEE in 160ths, so that every float of the code is an *)
(* integer here.                                                           *)
(***************************************************************************)
\* 40 * _activity_multiplier(level)
_activity_multiplier(level) ==
    CASE level = "low" -> 48 [] level = "medium" -> 62 [] level = "high" -> 69
\* 4 * bmr_mifflin_st_jeor
bmr_quarters(sex, age, height_cm, weight_kg) ==
    4 * weight_kg + 25 * height_cm - 20 * age + 4 * (IF sex = "male" THEN 5 ELSE -161)
\* 160 * tdee
tdee(bmr, activity) == bmr * _activity_multiplier(activity)
default_deficit_pct(goal) ==
    CASE goal = "loss" -> 15 [] goal = "recomp" -> 10 [] goal = "gain" -> -10 [] OTHER -> 0
\* the clamp that leaves the sign of a request alone
clamp_deficit_pct_of_magnitude(goal, pct) ==
    IF goal = "maintain" THEN 0 ELSE Max(Min(pct, 30), -15)
clamp_deficit_pct_of(goal, pct) ==
    CASE goal = "gain" -> Max(Min(pct, -5), -15)
      [] goal = "maintain" -> 0
      [] goal = "recomp" -> Max(Min(pct, 15), 5)
      [] OTHER -> Max(Min(pct, 30), 10)
\* deficit_pct=None: a number no request carries
NoPct == 1000
\* (cal, pct)
calorie_target_from_tdee(tdee_kcal, goal, deficit_pct) ==
    LET pct == clamp_deficit_pct_of(goal, IF deficit_pct = NoPct THEN default_deficit_pct(goal)
                                          ELSE deficit_pct)
    IN  [cal |-> RoundHalfEven(tdee_kcal * (100 - pct), 16000), pct |-> pct]
macros_for_targets_of(calories, weight_kg, goal) ==
    LET protein == RoundHalfEven((IF goal \in {"gain", "recomp"} THEN 18 ELSE 16) * weight_kg, 100)
        fat == RoundHalfEven(8 * weight_kg, 100)
        carbs_kcal == Max(calories - (protein * 4 + fat * 9), 0)
    IN  [calories |-> calories, protein_g |-> protein, fat_g |-> fat,
         carbs_g |-> RoundHalfEven(carbs_kcal, 4)]
compute_targets_with_meta_of(a) ==
    LET b == bmr_quarters(a.sex, a.age, a.height_cm, a.weight_kg)
        td == tdee(b, a.activity)
        c == calorie_target_from_tdee(td, a.goal, a.deficit_pct)
        tdee_kcal == RoundHalfEven(td, 160)
    IN  [t |-> macros_for_targets_of(c.cal, a.weight_kg, a.goal),
         meta |-> [bmr_kcal |-> RoundHalfEven(b, 4), tdee_kcal |-> tdee_kcal, goal |-> a.goal,
                   deficit_pct |-> c.pct, deficit_kcal |-> tdee_kcal - c.cal]]

\* the body metrics the onboarding accepts, at their limits and between
Sexes == {"male", "female"}
Ages == {10, 28, 100}
Heights == {120, 190, 230}
BodyWeights == {300, 825, 1180, 3000}
ActivityLevels == {"low", "medium", "high"}
Goals == {"loss", "maintain", "gain", "recomp"}
RequestedPcts == {NoPct, -100, -10, -5, -1, 0, 1, 5, 10, 15, 30, 100}
CalcArgs ==
    [sex : Sexes, age : Ages, height_cm : Heights, weight_kg : BodyWeights,
     activity : ActivityLevels, goal : Goals, deficit_pct : RequestedPcts]
InitCalc ==
    /\ Created
    /\ CreatedTier
    /\ CreatedRows
    /\ CreatedWeight
    /\ CreatedSched
    /\ CreatedTrial
    /\ CreatedMealRun
    /\ CreatedFailure
    /\ CreatedAttempt
    /\ CreatedClientRun
    /\ CreatedFoodRun
    /\ CreatedDailyRun
    /\ CreatedScanRun
    /\ calc \in {[NoCalc EXCEPT !.args = a] : a \in CalcArgs}
Compute ==
    /\ calc.t = None
    /\ LET r == compute_targets_with_meta_of(calc.args)
       IN  calc' = [calc EXCEPT !.t = r.t, !.meta = r.meta]
NextCalc == Compute /\ UNCHANGED beside_calc
SpecCalc == InitCalc /\ [][NextCalc]_vars

\* C33: the deficit has the sign of the goal whatever deficit is requested:
\* loss gives tdee_kcal > calories and deficit_kcal > 0, maintain gives
\* tdee_kcal = calories and deficit_kcal = 0, gain gives calories > tdee_kcal
\* and deficit_kcal < 0.
C33_DeficitSignFollowsGoal ==
    calc.t # None =>
        /\ calc.args.goal = "loss" =>
              calc.meta.tdee_kcal > calc.t.calories /\ calc.meta.deficit_kcal > 0
        /\ calc.args.goal = "maintain" =>
              calc.meta.tdee_kcal = calc.t.calories /\ calc.meta.deficit_kcal = 0
        /\ calc.args.goal = "gain" =>
              calc.t.calories > calc.meta.tdee_kcal /\ calc.meta.deficit_kcal < 0
\* a loss goal with a surplus requested, at the smallest body the onboarding
\* accepts, has come out with a deficit
C33_SurplusRequestedForLoss ==
    /\ calc.t # None
    /\ calc.args.goal = "loss"
    /\ calc.args.deficit_pct = -100
    /\ calc.args = [calc.args EXCEPT !.sex = "female", !.age = 100, !.height_cm = 120,
                                      !.weight_kg = 300]
    /\ calc.meta.deficit_pct = 10
    /\ calc.meta.deficit_kcal > 0

(***************************************************************************)
(* The step of a persisted flow against its payload.                       *)
(***************************************************************************)
\* the number of positions the payload of the persisted mode has
Positions ==
    CASE dialog_state = "food_pick" -> Len(get_dialog_data.ctx.unresolved)
      [] dialog_state \in {"photo_clarify", "meal_clarify"} -> get_dialog_data.questions
      [] OTHER -> 0
\* C34: in food_pick the persisted step is a position of the unresolved
\* items, and in photo_clarify and meal_clarify it is a position of the
\* questions: 0 <= step < their number.
C34_StepWithinPayload ==
    dialog_state \in {"food_pick", "photo_clarify", "meal_clarify"} =>
        0 <= dialog_step /\ dialog_step < Positions
\* C34 as amended: as above, except that photo_clarify is also persisted with
\* no question at all, at step 0.
C34_StepWithinPayloadOrNone ==
    dialog_state \in {"food_pick", "photo_clarify", "meal_clarify"} =>
        \/ 0 <= dialog_step /\ dialog_step < Positions
        \/ dialog_state = "photo_clarify" /\ Positions = 0 /\ dialog_step = 0
\* the second of two questions about a photo is open
C34_SecondQuestionOpen ==
    /\ dialog_state = "photo_clarify"
    /\ Positions = 2
    /\ dialog_step = 1

(***************************************************************************)
(* A generation that ends after the user has left plan_generating.         *)
(***************************************************************************)
\* the last message was the cancel literal or met the staleness reset, the
\* store is idle since, and a generation is still awaiting its oracle
CancelledInFlight ==
    /\ gen # <<>>
    /\ dialog_state = Null
    /\ out.cancel \/ out.reply = "reset"
\* C35: a generation that ends after the user cancelled it, or after the
\* staleness reset, persists no Plan row and leaves the dialog idle.
C35_CancellationWins ==
    [][(CancelledInFlight /\ Len(gen') < Len(gen)) =>
          /\ plans' = plans
          /\ dialog_state' = Null /\ dialog_step' = NoStep /\ dialog_data' = None]_vars

(***************************************************************************)
(* The daily check-in of _checkin_loop: one session per scan holds every   *)
(* user it loaded, and a commit writes whatever that session holds.        *)
(***************************************************************************)
\* "21:30", the default of daily_checkin_time, and the scans around it
T2130 == [hh |-> 21, mm |-> 30]
DailyFirstScan == [hh |-> 21, mm |-> 29]
DailyLastScan == [hh |-> 21, mm |-> 33]
\* the preferences of a scanned user: the daily check-in is on, the weight
\* prompt is on or off and asked in the same minutes
DailyPrefs ==
    {[daily_checkin_enabled |-> TRUE],
     [daily_checkin_enabled |-> TRUE, weight_prompt_enabled |-> TRUE,
      weight_prompt_time |-> T2130]}
\* the dialog columns of a users row
DialogRow(state, step, data) ==
    [dialog_state |-> state, dialog_step |-> step, dialog_data_json |-> data]
IdleRow == DialogRow(Null, NoStep, None)
DialogRows == {IdleRow, DialogRow("plan_edit", 0, [start_date |-> today_local, days |-> 1])}
\* the daily check-in is due
DailyDue(p, now_local) ==
    /\ Get(p, "daily_checkin_enabled", FALSE) = TRUE
    /\ LET tstr == Get(p, "daily_checkin_time", T2130)
       IN /\ DayAllowed(Get(p, "daily_checkin_days", "all"), now_local.date)
          /\ InWindow(tstr.hh, tstr.mm, now_local)
          /\ Get(p, "last_daily_checkin_date", NoDate) # now_local.date
\* db.commit(): every user object of the session that was assigned is written
db_commit(users, session) ==
    [u \in Users |-> IF session[u] = None THEN users[u] ELSE session[u]]

InitDaily ==
    /\ Created
    /\ CreatedTier
    /\ CreatedRows
    /\ CreatedWeight
    /\ CreatedSched
    /\ CreatedTrial
    /\ CreatedMealRun
    /\ CreatedFailure
    /\ CreatedAttempt
    /\ CreatedClientRun
    /\ CreatedFoodRun
    /\ CreatedCalc
    /\ CreatedScanRun
    /\ \E p \in [Users -> DailyPrefs], r \in [Users -> DialogRows] :
          daily_run = [NoDailyRun EXCEPT
                          !.prefs = p, !.users = r,
                          !.now = [date |-> today_local, hh |-> DailyFirstScan.hh,
                                   mm |-> DailyFirstScan.mm]]
\* async with SessionLocal() as db: the users are loaded, nothing is assigned
DailyScanStart ==
    /\ daily_run.pc = "sleep"
    /\ daily_run' = [daily_run EXCEPT !.pc = "weight", !.u = 1,
                                      !.session = [u \in Users |-> None]]
\* the weight prompt of user u: send, merge and commit, or nothing
DailyWeightPrompt ==
    /\ daily_run.pc = "weight"
    /\ LET u == daily_run.u
       IN IF WeightDue(daily_run.prefs[u], daily_run.now)
          THEN \E outcome \in Outcomes :
                  daily_run' =
                      IF outcome = "ok"
                      THEN [daily_run EXCEPT
                               !.pc = "daily",
                               !.prefs[u] = merge(@, [last_weight_prompt_date |->
                                                          daily_run.now.date]),
                               !.users = db_commit(@, daily_run.session),
                               !.session = [v \in Users |-> None]]
                      ELSE [daily_run EXCEPT !.pc = "daily"]
          ELSE daily_run' = [daily_run EXCEPT !.pc = "daily"]
\* the daily check-in of user u: the dialog is assigned on the user object,
\* then the prompt is sent, the marker merged and the session committed; an
\* exception of the send is swallowed with the assignment left in the session
DailyCheckin ==
    /\ daily_run.pc = "daily"
    /\ LET u == daily_run.u
           assigned == [daily_run.session EXCEPT
                           ![u] = DialogRow("daily_checkin", 0,
                                            [date |-> daily_run.now.date])]
       IN IF DailyDue(daily_run.prefs[u], daily_run.now)
          THEN \E outcome \in Outcomes :
                  daily_run' =
                      IF outcome = "ok"
                      THEN [daily_run EXCEPT
                               !.pc = "next",
                               !.prompted = @ \cup {u},
                               !.prefs[u] = merge(@, [last_daily_checkin_date |->
                                                          daily_run.now.date]),
                               !.users = db_commit(@, assigned),
                               !.session = [v \in Users |-> None]]
                      ELSE [daily_run EXCEPT !.pc = "next", !.raised = @ \cup {u},
                                             !.session = assigned]
          ELSE daily_run' = [daily_run EXCEPT !.pc = "next"]
\* the next user of the scan, or the end of the session, which drops what was
\* assigned and not committed, and asyncio.sleep(60)
DailyNextUser ==
    /\ daily_run.pc = "next"
    /\ IF daily_run.u < MaxUsers
       THEN daily_run' = [daily_run EXCEPT !.pc = "weight", !.u = @ + 1]
       ELSE /\ ~(daily_run.now.hh = DailyLastScan.hh /\ daily_run.now.mm = DailyLastScan.mm)
            /\ daily_run' = [daily_run EXCEPT !.pc = "sleep", !.u = 0,
                                              !.session = <<>>,
                                              !.now.mm = @ + 1]
NextDaily ==
    \/ DailyScanStart /\ UNCHANGED beside_daily_run
    \/ DailyWeightPrompt /\ UNCHANGED beside_daily_run
    \/ DailyCheckin /\ UNCHANGED beside_daily_run
    \/ DailyNextUser /\ UNCHANGED beside_daily_run
SpecDaily == InitDaily /\ [][NextDaily]_vars

C37_OneGenerationInFlight == Len(gen) <= 1

(***************************************************************************)
(* The Approve button of plan_edit.                                        *)
(***************************************************************************)
\* the row of date d, when there is one
PlanRow(rows, d) == CHOOSE r \in rows : r.date = d
\* the handler that ended was the Approve branch of plan_edit
ApprovedNow == out'.h = "plan_edit.approve"
\* C38: approving a plan returns the user to idle and leaves the meals, the
\* totals, the shopping list and calories_target of every Plan row as they
\* were.
C38_ApprovalKeepsRows ==
    [][ApprovedNow =>
          /\ dialog_state' = Null
          /\ {r.date : r \in plans'} = {r.date : r \in plans}
          /\ \A r \in plans :
                LET q == PlanRow(plans', r.date)
                IN /\ q.calories_target = r.calories_target
                   /\ loads(q.plan_json).meals = loads(r.plan_json).meals
                   /\ loads(q.plan_json).totals = loads(r.plan_json).totals
                   /\ loads(q.plan_json).shopping_list = loads(r.plan_json).shopping_list]_vars

(***************************************************************************)
(* The calorie adjustment of the weekly review and its confirmation.       *)
(***************************************************************************)
\* calorie_adjustment.new_calories of the weekly analysis
NewCalories == {1700, 2500}
ApplyAnswers == {"yes", "no", "escape", "other"}
\* the "yes" branch of _handle_apply_calories: calories_target and the macros
\* of the user row
apply_calories_yes(user, new_cal) ==
    LET t == compute_targets_with_meta(user.weight_kg, Profile.deficit_pct).t
        kcal_pf == t.protein_g * 4 + t.fat_g * 9
    IN [user EXCEPT !.calories_target = new_cal,
                    !.protein_g_target = t.protein_g,
                    !.fat_g_target = t.fat_g,
                    !.carbs_g_target = IF new_cal <= kcal_pf THEN 0
                                       ELSE RoundHalfEven(new_cal - kcal_pf, 4),
                    !.dialog_state = Null,
                    !.dialog_data_json = None]
\* what a confirmed proposal leaves of the user row and the preferences
apply_calories(user, p, new_cal) ==
    [user |-> apply_calories_yes(user, new_cal), prefs |-> p]
\* cmd_week with a calorie_adjustment in the analysis: the proposal is stored
\* in the dialog (the calibration it merges is read by no target)
WeekProposal ==
    \E n \in NewCalories :
        Commit([user |-> [account EXCEPT !.dialog_state = "apply_calories",
                                         !.dialog_data_json = dumps([new_calories |-> n])],
                prefs |-> prefs], "week", "none")
\* a text in mode apply_calories
ApplyCalories ==
    /\ account.dialog_state = "apply_calories"
    /\ \E answer \in ApplyAnswers :
          LET new_cal == loads(account.dialog_data_json).new_calories
              idle == [account EXCEPT !.dialog_state = Null, !.dialog_data_json = None]
          IN Commit(IF answer = "yes" THEN apply_calories(account, prefs, new_cal)
                    ELSE IF answer = "other" THEN [user |-> account, prefs |-> prefs]
                    ELSE [user |-> idle, prefs |-> prefs],
                    "apply_calories", answer)
NextTargets ==
    \/ NextWeight
    \/ WeekProposal
    \/ ApplyCalories
SpecTargets == Init /\ [][NextTargets]_vars

\* the day d has no weekday or weekend override in the targets targ
NoOverride(targ, d) ==
    IF Weekday(d) < 5 THEN ~Has(targ, "calories_weekdays") ELSE ~Has(targ, "calories_weekends")
\* C39: after the user confirms a proposal with new value N, the active
\* calorie target of every day without a weekday or weekend override is N.
C39_ConfirmedIsActive ==
    [][(did'.op = "apply_calories" /\ did'.path = "yes") =>
          \A d \in 0..6 :
              NoOverride(prefs'.targets, d) =>
                  _active_targets(prefs', account', d).kcal =
                      loads(account.dialog_data_json).new_calories]_vars

(***************************************************************************)
(* A daily time-window trigger over the scans of one local date: the weight *)
(* prompt of one user, every send returning.  A moment is the number of     *)
(* seconds since the midnight that opens today_local.                       *)
(***************************************************************************)
\* await asyncio.sleep(60) at the end of a scan
SleepSeconds == 60
\* the longest time from one scan to the next
MaxGapSeconds == 90
DaySeconds == 24 * 60 * 60
ScanStep == (MaxGapSeconds - SleepSeconds) \div 2
ScanGaps == {SleepSeconds + k * ScanStep : k \in 0..2}
\* the first scan of the date follows a scan of the day before
FirstScans == {s \in 0..(MaxGapSeconds - 1) : s % ScanStep = 0}
ScanTimes ==
    {[hh |-> 0, mm |-> 0], [hh |-> 6, mm |-> 0], [hh |-> 9, mm |-> 58],
     [hh |-> 12, mm |-> 59], [hh |-> 23, mm |-> 59]}
\* now_local of the moment s
LocalOf(s) ==
    [date |-> today_local + s \div DaySeconds,
     hh |-> (s % DaySeconds) \div 3600,
     mm |-> (s % 3600) \div 60]
InitScan ==
    /\ Created
    /\ CreatedTier
    /\ CreatedRows
    /\ CreatedWeight
    /\ CreatedSched
    /\ CreatedTrial
    /\ CreatedMealRun
    /\ CreatedFailure
    /\ CreatedAttempt
    /\ CreatedClientRun
    /\ CreatedFoodRun
    /\ CreatedCalc
    /\ CreatedDailyRun
    /\ \E t \in ScanTimes, s \in FirstScans :
          scan_run = [prefs |-> [weight_prompt_enabled |-> TRUE, weight_prompt_time |-> t],
                      now |-> s, fired |-> FALSE]
\* one pass of "while True" on the date: the weight prompt is sent and its
\* marker merged and committed when it is due, and the loop sleeps
ScanTrigger ==
    /\ scan_run.now < DaySeconds
    /\ LET now_local == LocalOf(scan_run.now)
           due == WeightDue(scan_run.prefs, now_local)
       IN \E gap \in ScanGaps :
             scan_run' =
                 [prefs |-> IF due
                            THEN merge(scan_run.prefs,
                                       [last_weight_prompt_date |-> now_local.date])
                            ELSE scan_run.prefs,
                  now |-> scan_run.now + gap,
                  fired |-> scan_run.fired \/ due]
NextScan == ScanTrigger /\ UNCHANGED beside_scan_run
SpecScan == InitScan /\ [][NextScan]_vars

\* C40: with scans at most 90 seconds apart and every send returning, the
\* trigger of any configured time HH:MM has fired on the date when the scans
\* of that date are over.
C40_FiredOnDate == scan_run.now >= DaySeconds => scan_run.fired

====
